---- MODULE Spec2Model ----
(***************************************************************************)
(* Model of the date-range utilities built on moment / moment-timezone:    *)
(* generateRecurringEvents, getDateRangeIntersection, splitDateRange,      *)
(* aggregateDateRanges, getNextBusinessDay and generateTimeSlots.          *)
(*                                                                         *)
(* A Moment is a record [valid, d, t, off]: d is the UTC day number        *)
(* counted from 2024-01-01, t the millisecond of that UTC day, off the     *)
(* UTC offset (ms) the moment displays in.  The process zone is UTC, so a  *)
(* moment that was never given a zone has off = 0.  Modelled zones have a  *)
(* fixed offset (no daylight-saving transitions).                          *)
(***************************************************************************)
EXTENDS Integers, Sequences, FiniteSets, TLC

\* ------------------------------------------------------------------ bounds

\* Largest whole number of units between the start and the end drawn.
MaxSpan == 3
\* Largest step (intervalValue, chunkSize) drawn.
MaxStep == 2

\* ---------------------------------------------------------------- calendar

MsPerSecond == 1000
MsPerMinute == 60 * MsPerSecond
MsPerHour == 60 * MsPerMinute
MsPerDay == 24 * MsPerHour

Min2(a, b) == IF a < b THEN a ELSE b

\* Month index mi counts months from January 2024 (mi = 0).
YearOf(mi) == 2024 + (mi \div 12)

IsLeap(y) == (y % 4 = 0 /\ y % 100 # 0) \/ y % 400 = 0

DaysInMonth(mi) ==
  LET m == mi % 12 IN
  IF m = 1 THEN (IF IsLeap(YearOf(mi)) THEN 29 ELSE 28)
  ELSE IF m \in {3, 5, 8, 10} THEN 30 ELSE 31

\* Leap years among the years 1..y of the Gregorian calendar.
LeapYearsUpTo(y) == (y \div 4) - (y \div 100) + (y \div 400)

\* Days from the start of a common year to the start of its month m (0..11).
CommonYearMonthStarts == <<0, 31, 59, 90, 120, 151, 181, 212, 243, 273, 304, 334>>

\* Day number of the first day of month mi.
MonthStart(mi) ==
  LET y == YearOf(mi)
      m == mi % 12
  IN 365 * (y - 2024) + (LeapYearsUpTo(y - 1) - LeapYearsUpTo(2023))
     + CommonYearMonthStarts[m + 1] + (IF IsLeap(y) /\ m >= 2 THEN 1 ELSE 0)

RECURSIVE MonthIdxFrom(_, _)
MonthIdxFrom(dn, mi) == IF dn < MonthStart(mi + 1) THEN mi ELSE MonthIdxFrom(dn, mi + 1)

\* Month index of day number dn; no year has more than 366 days, so the
\* search starts at January of the year that 366-day years would give.
MonthIdx(dn) == MonthIdxFrom(dn, 12 * (dn \div 366))

\* Day of the month, 1-based.
DateOf(dn) == dn - MonthStart(MonthIdx(dn)) + 1

\* 0 = Sunday ... 6 = Saturday; 2024-01-01 was a Monday.
Weekday(dn) == (dn + 1) % 7

\* Day number of year y, month m (1..12), day dd.
Ymd(y, m, dd) == MonthStart((y - 2024) * 12 + (m - 1)) + dd - 1

\* ------------------------------------------------------------------ moments

InvalidMoment == [valid |-> FALSE, d |-> 0, t |-> 0, off |-> 0]

\* The moment at UTC day dn plus ms milliseconds, shown with offset off.
Utc(dn, ms, off) ==
  [valid |-> TRUE, d |-> dn + (ms \div MsPerDay), t |-> ms % MsPerDay, off |-> off]

\* Wall-clock day and millisecond of the day in the moment's own offset.
LocalDay(m) == m.d + ((m.t + m.off) \div MsPerDay)
LocalMs(m) == (m.t + m.off) % MsPerDay

\* The moment whose wall clock, at offset off, shows day ld and ms lt.
FromLocal(ld, lt, off) == Utc(ld, lt - off, off)

IsValid(m) == m.valid

IsBeforeDate(a, b) == a.d < b.d \/ (a.d = b.d /\ a.t < b.t)
IsAfterDate(a, b) == IsBeforeDate(b, a)
IsSameDate(a, b) == a.d = b.d /\ a.t = b.t
IsSameOrBeforeDate(a, b) == ~IsAfterDate(a, b)
IsSameOrAfterDate(a, b) == ~IsBeforeDate(a, b)

\* Length of the fixed-length units in milliseconds.
UnitMs(unit) ==
  CASE unit = "milliseconds" -> 1
    [] unit = "seconds" -> MsPerSecond
    [] unit = "minutes" -> MsPerMinute
    [] unit = "hours" -> MsPerHour
    [] unit = "days" -> MsPerDay
    [] unit = "weeks" -> 7 * MsPerDay

\* Wall-clock month arithmetic: the day of the month is clamped to the
\* length of the target month, the time of day is kept.
AddMonths(m, n) ==
  LET ld == LocalDay(m)
      mi == MonthIdx(ld) + n
      dd == Min2(DateOf(ld), DaysInMonth(mi))
  IN FromLocal(MonthStart(mi) + dd - 1, LocalMs(m), m.off)

\* The units moment recognises; any other string is no unit to it.
MomentUnits ==
  {"milliseconds", "seconds", "minutes", "hours", "days", "weeks", "months", "years"}

\* A moment in local mode takes its offset from the system's zone. Where a
\* moment carries the field zone, that zone is America/New_York, whose
\* clocks went from 02:00 EST (UTC-5) to 03:00 EDT (UTC-4) on 2025-03-09 at
\* 07:00 UTC; a moment without the field is in a zone of fixed offset.
\* Such moments are drawn for getNextBusinessDay only, which steps them by
\* days.
IsLocalDst(m) == "zone" \in DOMAIN m
StdOffset == 0 - 5 * MsPerHour
DstOffset == 0 - 4 * MsPerHour
DstStart == Utc(Ymd(2025, 3, 9), 7 * MsPerHour, 0)

\* Date.prototype.setDate and the like in that zone: the instant of wall
\* clock day ld, millisecond lt. A wall-clock time in the hour the clocks
\* skipped is read with the offset before the change, and so shows one hour
\* later.
LocalDstFromWallClock(ld, lt) ==
  LET std == FromLocal(ld, lt, StdOffset)
      dst == FromLocal(ld, lt, DstOffset)
      at == IF IsBeforeDate(std, DstStart) THEN std
            ELSE IF IsSameOrAfterDate(dst, DstStart) THEN dst
            ELSE [std EXCEPT !.off = DstOffset]
  IN [valid |-> TRUE, d |-> at.d, t |-> at.t, off |-> at.off, zone |-> "America/New_York"]

\* moment#add(amount, unit); an unrecognised unit adds nothing.
AddTime(m, amount, unit) ==
  CASE unit \notin MomentUnits -> m
    [] unit \in {"days", "weeks"} /\ IsLocalDst(m) ->
         LocalDstFromWallClock(LocalDay(m) + amount * (UnitMs(unit) \div MsPerDay), LocalMs(m))
    [] unit = "months" -> AddMonths(m, amount)
    [] unit = "years" -> AddMonths(m, 12 * amount)
    [] unit \in {"days", "weeks"} ->
         FromLocal(LocalDay(m) + amount * (UnitMs(unit) \div MsPerDay), LocalMs(m), m.off)
    [] OTHER -> Utc(m.d, m.t + amount * UnitMs(unit), m.off)

\* moment#startOf(unit); an unrecognised unit leaves the moment as it is.
SetStartOfUnit(m, unit) ==
  LET ld == LocalDay(m)
      lt == LocalMs(m)
      mi == MonthIdx(ld)
  IN CASE unit \notin MomentUnits -> m
       [] unit = "years" -> FromLocal(MonthStart(mi - (mi % 12)), 0, m.off)
       [] unit = "months" -> FromLocal(MonthStart(mi), 0, m.off)
       [] unit = "weeks" -> FromLocal(ld - Weekday(ld), 0, m.off)
       [] unit = "days" -> FromLocal(ld, 0, m.off)
       [] OTHER -> FromLocal(ld, lt - (lt % UnitMs(unit)), m.off)

\* moment#endOf(unit): the last millisecond of the unit the moment lies in;
\* an unrecognised unit leaves the moment as it is.
SetEndOfUnit(m, unit) ==
  IF unit \notin MomentUnits THEN m
  ELSE AddTime(AddTime(SetStartOfUnit(m, unit), 1, unit), -1, "milliseconds")

\* moment#day(): the wall-clock weekday.
Day(m) == Weekday(LocalDay(m))

\* moment#format('YYYY-MM-DD'): the wall-clock year, month and day.
FormatYmd(m) ==
  LET ld == LocalDay(m) IN
  <<YearOf(MonthIdx(ld)), (MonthIdx(ld) % 12) + 1, DateOf(ld)>>

\* moment#set({hour, minute}): seconds and milliseconds are kept.
SetHourMinute(m, h, mn) ==
  FromLocal(LocalDay(m), h * MsPerHour + mn * MsPerMinute + (LocalMs(m) % MsPerMinute), m.off)

\* Zones: the empty string stands for "no timezone argument".
KnownZones == {"Asia/Kolkata", "UTC"}

\* momentTz.tz.zone(name) is null for a name that is no zone.
ZoneExists(name) == name \in KnownZones

ZoneOffset(name) ==
  IF name = "Asia/Kolkata" THEN 5 * MsPerHour + 30 * MsPerMinute ELSE 0

\* moment#tz(name): the same instant, displayed in the zone.
SetTimezone(m, name) == [m EXCEPT !.off = ZoneOffset(name)]

\* A JavaScript number: an integer v, or (int = FALSE) a value strictly
\* between v and v + 1.
Num(v) == [int |-> TRUE, v |-> v]
Frac(v) == [int |-> FALSE, v |-> v]
NumberIsInteger(x) == x.int
\* NumberLeqZero that lets zero through.
NumberLtZero(x) == x.v < 0
NumberLeqZero(x) == IF x.int THEN x.v <= 0 ELSE x.v < 0

\* A returned value: null, or a value.
Null == [isNull |-> TRUE, value |-> <<>>]
Value(v) == [isNull |-> FALSE, value |-> v]

Idle == [pc |-> "idle"]

VARIABLES
  recur,     \* the frame of a generateRecurringEvents call
  isect,     \* the frame of a getDateRangeIntersection call
  split,     \* the frame of a splitDateRange call
  nbd,       \* the frame of a getNextBusinessDay call
  slots,     \* the frame of a generateTimeSlots call
  agg,       \* the frame of an aggregateDateRanges call
  batch,     \* the frame of a batchConvertTimezone call
  prim,      \* the frame of a call of a moment.basic-utils wrapper
  retry,     \* the frame of a retryWithBackoff call
  deb,       \* the closure of a debounced function and its timers
  heap,      \* the Moment objects of a caller and of the core operation it calls
  thr,       \* the closure of a throttled function and the clock
  memo,      \* the closure of a memoized function and its cache
  trunc      \* the frame of a truncateString call

vars == <<recur, isect, split, nbd, slots, agg, batch, prim, retry, deb, heap, thr, memo, trunc>>

\* ------------------------------------------------------------------ inputs

\* Time of day h:mn:s.ms in milliseconds.
Tod(h, mn, s, ms) == h * MsPerHour + mn * MsPerMinute + s * MsPerSecond + ms

\* Start instants: month ends (2025-01-31, 2024-02-29) and a mid-month day
\* (2025-06-10), at midnight and inside the day, and 2025-01-30 20:00 UTC
\* as a moment in Asia/Kolkata (01:30 on 2025-01-31 there).
StartDays == {Ymd(2025, 1, 31), Ymd(2024, 2, 29), Ymd(2025, 6, 10)}
StartTods == {0, Tod(12, 0, 30, 500)}
StartMoments ==
  {Utc(dn, tod, 0) : dn \in StartDays, tod \in StartTods} \cup
  {Utc(Ymd(2025, 1, 30), Tod(20, 0, 0, 0), ZoneOffset("Asia/Kolkata"))}

\* Steps: valid ones, and zero, a negative and a non-integer one.
ValidSteps == {Num(k) : k \in 1..MaxStep}
BadSteps == {Num(0), Num(-1), Frac(1)}

\* ---------------------------------------------------------- splitDateRange

\* The end of a range of k units from start, moved by delta milliseconds.
EndFor(start, k, unit, delta) == AddTime(AddTime(start, k, unit), delta, "milliseconds")

SplitUnits == {"milliseconds", "hours", "days", "weeks", "months", "years"}

SplitInputs ==
  { [startDate |-> s, endDate |-> e, unit |-> u, chunkSize |-> c] :
      s \in StartMoments, u \in SplitUnits, c \in ValidSteps \cup BadSteps,
      e \in {InvalidMoment} } \cup
  UNION { UNION { { [startDate |-> s, endDate |-> EndFor(s, k, u, dl), unit |-> u, chunkSize |-> c],
                    [startDate |-> EndFor(s, k, u, dl), endDate |-> s, unit |-> u, chunkSize |-> c] } :
                  k \in 0..MaxSpan, dl \in {-1, 0, 1}, c \in ValidSteps \cup BadSteps } :
          s \in StartMoments, u \in SplitUnits }

InitSplit ==
  /\ split \in { [pc |-> "call", in |-> i, currentStart |-> InvalidMoment,
                  ranges |-> <<>>, result |-> Null] : i \in SplitInputs }
  /\ recur = Idle /\ isect = Idle /\ nbd = Idle /\ slots = Idle /\ agg = Idle /\ batch = Idle /\ prim = Idle /\ retry = Idle /\ deb = Idle /\ heap = Idle /\ thr = Idle /\ memo = Idle /\ trunc = Idle

\* Lines 79-84: argument validation and loop set-up.
SplitCall ==
  /\ split.pc = "call"
  /\ LET start == split.in.startDate
         end == split.in.endDate
         chunkSize == split.in.chunkSize
     IN IF ~IsValid(start) \/ ~IsValid(end) \/ ~NumberIsInteger(chunkSize) \/ NumberLeqZero(chunkSize)
        THEN split' = [split EXCEPT !.pc = "done", !.result = Null]
        ELSE split' = [split EXCEPT !.pc = "loop", !.currentStart = start, !.ranges = <<>>]
  /\ UNCHANGED <<recur, isect, nbd, slots, agg, batch, prim, retry, deb, thr, memo, trunc>>

\* SplitCurrentEnd without the truncation to the end of the unit.
SplitCurrentEndNoEndOf(currentStart, unit, chunkSize) ==
  AddTime(currentStart, chunkSize - 1, unit)

\* Line 86: the tentative end of the chunk that starts at currentStart.
SplitCurrentEnd(currentStart, unit, chunkSize) ==
  SetEndOfUnit(AddTime(currentStart, chunkSize - 1, unit), unit)

\* SplitNextStart without the truncation to the start of the unit.
SplitNextStartNoStartOf(currentStart, unit, chunkSize) ==
  AddTime(currentStart, chunkSize, unit)

\* Line 92: the start of the chunk after the one that starts at currentStart.
SplitNextStart(currentStart, unit, chunkSize) ==
  SetStartOfUnit(AddTime(currentStart, chunkSize, unit), unit)

\* Lines 85-94: one test of the loop condition and one pass of its body.
SplitLoop ==
  /\ split.pc = "loop"
  /\ LET end == split.in.endDate
         unit == split.in.unit
         chunkSize == split.in.chunkSize.v
         currentStart == split.currentStart
         currentEnd == SplitCurrentEnd(currentStart, unit, chunkSize)
     IN IF ~IsSameOrBeforeDate(currentStart, end)
        THEN split' = [split EXCEPT !.pc = "done", !.result = Value(split.ranges)]
        ELSE IF IsAfterDate(currentEnd, end)
        THEN LET rs == Append(split.ranges, [start |-> currentStart, end |-> end])
             IN split' = [split EXCEPT !.pc = "done", !.ranges = rs, !.result = Value(rs)]
        ELSE split' = [split EXCEPT
                         !.ranges = Append(split.ranges, [start |-> currentStart, end |-> currentEnd]),
                         !.currentStart = SplitNextStart(currentStart, unit, chunkSize)]
  /\ UNCHANGED <<recur, isect, nbd, slots, agg, batch, prim, retry, deb, thr, memo, trunc>>

NextSplit ==
  \/ SplitCall /\ UNCHANGED heap
  \/ SplitLoop /\ UNCHANGED heap

SpecSplit == InitSplit /\ [][NextSplit]_vars

\* ------------------------------------------------------ aggregateDateRanges

\* A span of time as whole days plus milliseconds (0 <= t < MsPerDay).
Dur(dd, ms) == [d |-> dd + (ms \div MsPerDay), t |-> ms % MsPerDay]
DurAdd(a, b) == Dur(a.d + b.d, a.t + b.t)

\* moment#diff(start, unit, true) for a fixed-length unit: the exact
\* quotient span / UnitMs(unit), kept as the pair of the two.
GetPreciseDifference(end, start, unit) ==
  [span |-> Dur(end.d - start.d, end.t - start.t), per |-> UnitMs(unit)]

AggregateUnits == {"milliseconds", "seconds", "minutes", "hours", "days", "weeks"}

RECURSIVE AggregateFromSkipping(_, _, _, _)
\* AggregateFrom that leaves a malformed range out of the total.
AggregateFromSkipping(ranges, unit, i, totalDuration) ==
  IF i > Len(ranges) THEN Value([span |-> totalDuration, per |-> UnitMs(unit)])
  ELSE LET start == ranges[i].start
           end == ranges[i].end
       IN IF ~IsValid(start) \/ ~IsValid(end) \/ IsAfterDate(start, end)
          THEN AggregateFromSkipping(ranges, unit, i + 1, totalDuration)
          ELSE AggregateFromSkipping(ranges, unit, i + 1,
                                     DurAdd(totalDuration, GetPreciseDifference(end, start, unit).span))

RECURSIVE AggregateFrom(_, _, _, _)
\* Lines 106-112: the loop over ranges from index i with the running total.
AggregateFrom(ranges, unit, i, totalDuration) ==
  IF i > Len(ranges) THEN Value([span |-> totalDuration, per |-> UnitMs(unit)])
  ELSE LET start == ranges[i].start
           end == ranges[i].end
       IN IF ~IsValid(start) \/ ~IsValid(end) \/ IsAfterDate(start, end) THEN Null
          ELSE AggregateFrom(ranges, unit, i + 1,
                             DurAdd(totalDuration, GetPreciseDifference(end, start, unit).span))

\* Lines 103-113 (ranges is an array).
AggregateDateRanges(ranges, unit) == AggregateFrom(ranges, unit, 1, Dur(0, 0))

\* ------------------------------------------------- claims on splitDateRange

\* A finished call on a valid range with a valid chunk size.
SplitValidDone ==
  /\ split.pc = "done"
  /\ IsValid(split.in.startDate) /\ IsValid(split.in.endDate)
  /\ split.in.chunkSize \in ValidSteps
  /\ IsSameOrBeforeDate(split.in.startDate, split.in.endDate)

\* The instant one millisecond after m.
NextInstant(m) == Utc(m.d, m.t + 1, m.off)

\* C1: the chunks splitDateRange returns for a valid range reconstruct it:
\* the first chunk starts at the range's start, the last ends at its end,
\* each chunk starts at the instant right after the previous chunk's end,
\* and every chunk has start <= end (so no instant is in two chunks).
C1_SplitReconstructs ==
  SplitValidDone =>
    LET rs == split.result.value IN
    /\ ~split.result.isNull
    /\ Len(rs) >= 1
    /\ IsSameDate(rs[1].start, split.in.startDate)
    /\ IsSameDate(rs[Len(rs)].end, split.in.endDate)
    /\ \A i \in 1..Len(rs) : IsSameOrBeforeDate(rs[i].start, rs[i].end)
    /\ \A i \in 1..(Len(rs) - 1) : IsSameDate(rs[i + 1].start, NextInstant(rs[i].end))

\* A split of a range that starts inside a unit into three or more chunks,
\* the last one clipped at the range's end.
C1_Witness ==
  /\ SplitValidDone
  /\ Len(split.result.value) >= 3
  /\ split.in.unit = "months"
  /\ LocalMs(split.in.startDate) # 0
  /\ ~IsSameDate(split.in.endDate, SetEndOfUnit(split.in.endDate, "months"))

\* C2 as stated: the aggregate of the chunks equals the aggregate of the
\* range itself, in every unit.
C2_Original ==
  SplitValidDone =>
    \A u \in AggregateUnits :
      AggregateDateRanges(split.result.value, u) =
        AggregateDateRanges(<<[start |-> split.in.startDate, end |-> split.in.endDate]>>, u)

\* C2 amended: in milliseconds, the aggregate of the n chunks is the
\* aggregate of the range minus n - 1 (one millisecond per chunk boundary).
C2_SplitAggregate ==
  SplitValidDone =>
    LET rs == split.result.value
        whole == AggregateDateRanges(<<[start |-> split.in.startDate, end |-> split.in.endDate]>>,
                                     "milliseconds")
        parts == AggregateDateRanges(rs, "milliseconds")
    IN /\ ~whole.isNull /\ ~parts.isNull
       /\ DurAdd(parts.value.span, Dur(0, Len(rs) - 1)) = whole.value.span

\* A split into two or more chunks, whose aggregate falls short.
C2_Witness ==
  /\ SplitValidDone
  /\ Len(split.result.value) >= 2
  /\ AggregateDateRanges(split.result.value, "days") #
       AggregateDateRanges(<<[start |-> split.in.startDate, end |-> split.in.endDate]>>, "days")

\* ------------------------------------------------- generateRecurringEvents

\* The timezone argument: none (""), zones that exist, one that does not.
Timezones == {"", "Asia/Kolkata", "Mars/Phobos"}

RecurUnits == {"hours", "days", "weeks", "months", "years"}

\* README line 81: generateRecurringEvents('2025-06-10', '2025-06-20', 'days', 2).
RecurReadme ==
  [startDate |-> Utc(Ymd(2025, 6, 10), 0, 0), endDate |-> Utc(Ymd(2025, 6, 20), 0, 0),
   intervalUnit |-> "days", intervalValue |-> Num(2), timezone |-> ""]

RecurInputs ==
  {RecurReadme} \cup
  { [startDate |-> s, endDate |-> e, intervalUnit |-> u, intervalValue |-> Num(1), timezone |-> ""] :
      s \in {InvalidMoment, Utc(Ymd(2025, 6, 10), 0, 0)},
      e \in {InvalidMoment, Utc(Ymd(2025, 6, 12), 0, 0)}, u \in RecurUnits } \cup
  UNION { UNION { { [startDate |-> s, endDate |-> EndFor(s, k, u, dl), intervalUnit |-> u,
                     intervalValue |-> iv, timezone |-> tz],
                    [startDate |-> EndFor(s, k, u, dl), endDate |-> s, intervalUnit |-> u,
                     intervalValue |-> iv, timezone |-> tz] } :
                  k \in 0..MaxSpan, dl \in {-1, 0}, iv \in ValidSteps \cup BadSteps,
                  tz \in Timezones } :
          s \in StartMoments, u \in RecurUnits }

InitRecur ==
  /\ recur \in { [pc |-> "call", in |-> i, current |-> InvalidMoment, endWithTz |-> InvalidMoment,
                  events |-> <<>>, result |-> Null] : i \in RecurInputs }
  /\ isect = Idle /\ split = Idle /\ nbd = Idle /\ slots = Idle /\ agg = Idle /\ batch = Idle /\ prim = Idle /\ retry = Idle /\ deb = Idle /\ heap = Idle /\ thr = Idle /\ memo = Idle /\ trunc = Idle

\* RecurRejects, also rejecting a start after the end.
RecurRejectsInverted(start, end, intervalValue, timezone) ==
  \/ ~IsValid(start) \/ ~IsValid(end)
  \/ ~NumberIsInteger(intervalValue) \/ NumberLeqZero(intervalValue)
  \/ (timezone # "" /\ ~ZoneExists(timezone))
  \/ IsAfterDate(start, end)

\* Lines 16-17: the two early returns of null.
RecurRejects(start, end, intervalValue, timezone) ==
  \/ ~IsValid(start) \/ ~IsValid(end)
  \/ ~NumberIsInteger(intervalValue) \/ NumberLeqZero(intervalValue)
  \/ (timezone # "" /\ ~ZoneExists(timezone))

\* Lines 14-21: argument validation and loop set-up.
RecurCall ==
  /\ recur.pc = "call"
  /\ LET start == recur.in.startDate
         end == recur.in.endDate
         timezone == recur.in.timezone
     IN IF RecurRejects(start, end, recur.in.intervalValue, timezone)
        THEN recur' = [recur EXCEPT !.pc = "done", !.result = Null]
        ELSE recur' = [recur EXCEPT
                         !.pc = "loop",
                         !.events = <<>>,
                         !.current = IF timezone # "" THEN SetTimezone(start, timezone) ELSE start,
                         !.endWithTz = IF timezone # "" THEN SetTimezone(end, timezone) ELSE end]
  /\ UNCHANGED <<isect, split, nbd, slots, agg, batch, prim, retry, deb, thr, memo, trunc>>

\* Lines 23-27: one test of the loop condition and one pass of its body.
RecurLoop ==
  /\ recur.pc = "loop"
  /\ IF IsSameOrBeforeDate(recur.current, recur.endWithTz)
     THEN recur' = [recur EXCEPT
                      !.events = Append(recur.events, recur.current),
                      !.current = AddTime(recur.current, recur.in.intervalValue.v,
                                          recur.in.intervalUnit)]
     ELSE recur' = [recur EXCEPT !.pc = "done", !.result = Value(recur.events)]
  /\ UNCHANGED <<isect, split, nbd, slots, agg, batch, prim, retry, deb, thr, memo, trunc>>

NextRecur ==
  \/ RecurCall /\ UNCHANGED heap
  \/ RecurLoop /\ UNCHANGED heap

SpecRecur == InitRecur /\ [][NextRecur]_vars

\* ----------------------------------------- moment#diff in whole units

\* The span from moment b to moment a (negative when a is before b).
SpanBetween(a, b) == Dur(a.d - b.d, a.t - b.t)

DurIsZero(x) == x.d = 0 /\ x.t = 0
DurIsNeg(x) == x.d < 0
DurNeg(x) == Dur(-x.d, -x.t)
DurLeq(x, y) == x.d < y.d \/ (x.d = y.d /\ x.t <= y.t)
DurTimes(n, x) == Dur(n * x.d, n * x.t)

\* floor(p / q) for spans p >= 0 and q > 0 with p / q below 8.
DurFloorDiv(p, q) ==
  CHOOSE n \in 0..8 : DurLeq(DurTimes(n, q), p) /\ ~DurLeq(DurTimes(n + 1, q), p)

\* ceil(p / q) for spans p >= 0 and q > 0.
DurCeilDiv(p, q) ==
  IF DurIsZero(p) THEN 0 ELSE DurFloorDiv(Dur(p.d, p.t - 1), q) + 1

\* floor of a signed quotient p / q, q > 0.
DurFloorQuot(p, q) ==
  IF DurIsNeg(p) THEN -DurCeilDiv(DurNeg(p), q) ELSE DurFloorDiv(p, q)

\* moment's monthDiff(a, b) without the leading sign and the swap:
\* wholeMonthDiff + adjust as the pair <<whole, p, q>> with adjust = p / q.
MonthDiffParts(a, b) ==
  LET wholeMonthDiff == MonthIdx(LocalDay(b)) - MonthIdx(LocalDay(a))
      anchor == AddMonths(a, wholeMonthDiff)
      p == SpanBetween(b, anchor)
  IN IF DurIsNeg(p)
     THEN <<wholeMonthDiff, p, SpanBetween(anchor, AddMonths(a, wholeMonthDiff - 1))>>
     ELSE <<wholeMonthDiff, p, SpanBetween(AddMonths(a, wholeMonthDiff + 1), anchor)>>

\* floor of a.diff(b, 'months', true).
MonthDiffFloor(a, b) ==
  IF DateOf(LocalDay(a)) < DateOf(LocalDay(b))
  THEN LET r == MonthDiffParts(b, a) IN r[1] + DurFloorQuot(r[2], r[3])
  ELSE LET r == MonthDiffParts(a, b) IN -r[1] + DurFloorQuot(DurNeg(r[2]), r[3])

\* floor(x / y) for integers, y > 0.
FloorDiv(x, y) == x \div y

\* floor of a.diff(b, unit, true) for b <= a.
GetDifference(a, b, unit) ==
  LET sp == SpanBetween(a, b) IN
  CASE unit = "months" -> MonthDiffFloor(a, b)
    [] unit = "years" -> FloorDiv(MonthDiffFloor(a, b), 12)
    [] unit = "weeks" -> FloorDiv(sp.d, 7)
    [] OTHER -> sp.d * (MsPerDay \div UnitMs(unit)) + FloorDiv(sp.t, UnitMs(unit))

\* ---------------------------------------- claims on generateRecurringEvents

\* A finished call that passed validation with start <= end.
RecurValidDone ==
  /\ recur.pc = "done"
  /\ ~RecurRejects(recur.in.startDate, recur.in.endDate, recur.in.intervalValue, recur.in.timezone)
  /\ IsSameOrBeforeDate(recur.in.startDate, recur.in.endDate)

\* The properties of C5 that do not count: first element, order, range.
RecurOrdered ==
  LET ev == recur.result.value IN
  /\ ~recur.result.isNull
  /\ Len(ev) >= 1
  /\ IsSameDate(ev[1], recur.in.startDate)
  /\ \A i \in 1..Len(ev) : /\ IsSameOrAfterDate(ev[i], recur.in.startDate)
                           /\ IsSameOrBeforeDate(ev[i], recur.in.endDate)
  /\ \A i \in 1..(Len(ev) - 1) : IsBeforeDate(ev[i], ev[i + 1])

\* C5 as stated: for start <= end, every unit and positive intervalValue
\* the occurrences start at start, increase strictly, lie in [start, end],
\* number floor(diff(end, start, unit) / intervalValue) + 1, and end with
\* end whenever end is start plus a whole number of intervals.
C5_Original ==
  RecurValidDone =>
    LET ev == recur.result.value
        iv == recur.in.intervalValue.v
        u == recur.in.intervalUnit
        zs == IF recur.in.timezone # "" THEN SetTimezone(recur.in.startDate, recur.in.timezone)
              ELSE recur.in.startDate
    IN /\ RecurOrdered
       /\ Len(ev) = FloorDiv(GetDifference(recur.endWithTz, zs, u), iv) + 1
       /\ \A k \in 0..(MaxSpan + 1) :
            IsSameDate(AddTime(zs, k * iv, u), recur.endWithTz) =>
              IsSameDate(ev[Len(ev)], recur.endWithTz)

\* C9: a call with valid instants, a valid step and zone and start > end
\* returns the empty array, and a call with malformed input returns null.
C9_EmptyNotNull ==
  recur.pc = "done" =>
    /\ (/\ IsValid(recur.in.startDate) /\ IsValid(recur.in.endDate)
        /\ recur.in.intervalValue \in ValidSteps
        /\ recur.in.timezone # "Mars/Phobos"
        /\ IsAfterDate(recur.in.startDate, recur.in.endDate))
         => (~recur.result.isNull /\ Len(recur.result.value) = 0)
    /\ (\/ ~IsValid(recur.in.startDate) \/ ~IsValid(recur.in.endDate)
        \/ recur.in.intervalValue \in BadSteps
        \/ recur.in.timezone = "Mars/Phobos")
         => recur.result.isNull

\* A finished call with start > end on otherwise valid input, in a zone.
C9_Witness ==
  /\ recur.pc = "done"
  /\ IsValid(recur.in.startDate) /\ IsValid(recur.in.endDate)
  /\ IsAfterDate(recur.in.startDate, recur.in.endDate)
  /\ recur.in.intervalValue \in ValidSteps
  /\ recur.in.timezone = "Asia/Kolkata"
  /\ recur.result = Value(<<>>)

\* ------------------------------------------------- getDateRangeIntersection

\* Endpoints: 2025-06-01, -05, -10 and -15 at midnight, 2025-06-10 as a
\* moment in another zone (the same instant), and an unparsable value.
IsectMoments ==
  { Utc(Ymd(2025, 6, dd), 0, 0) : dd \in {1, 5, 10, 15} } \cup
  { Utc(Ymd(2025, 6, 10), 0, ZoneOffset("Asia/Kolkata")), InvalidMoment }

IsectInputs ==
  { [start1 |-> s1, end1 |-> e1, start2 |-> s2, end2 |-> e2] :
      s1 \in IsectMoments, e1 \in IsectMoments, s2 \in IsectMoments, e2 \in IsectMoments }

InitIsect ==
  /\ isect \in { [pc |-> "call", in |-> i, result |-> Null] : i \in IsectInputs }
  /\ recur = Idle /\ split = Idle /\ nbd = Idle /\ slots = Idle /\ agg = Idle /\ batch = Idle /\ prim = Idle /\ retry = Idle /\ deb = Idle /\ heap = Idle /\ thr = Idle /\ memo = Idle /\ trunc = Idle

\* MomentMax that keeps its first argument.
MomentMaxFirst(a, b) == a

\* moment.max(a, b): the first argument unless the second is after it.
MomentMax(a, b) == IF IsAfterDate(b, a) THEN b ELSE a

\* moment.min(a, b): the first argument unless the second is before it.
MomentMin(a, b) == IF IsBeforeDate(b, a) THEN b ELSE a

\* IsectDisjoint that also rejects a candidate of zero length.
IsectDisjointOrTouching(intersectionStart, intersectionEnd) ==
  IsSameOrAfterDate(intersectionStart, intersectionEnd)

\* IsectDisjoint that rejects nothing.
IsectDisjointNever(intersectionStart, intersectionEnd) == FALSE

\* Line 66: the candidate is no range.
IsectDisjoint(intersectionStart, intersectionEnd) ==
  IsAfterDate(intersectionStart, intersectionEnd)

\* Lines 54-68.
GetDateRangeIntersection(mStart1, mEnd1, mStart2, mEnd2) ==
  IF ~IsValid(mStart1) \/ ~IsValid(mEnd1) \/ ~IsValid(mStart2) \/ ~IsValid(mEnd2) THEN Null
  ELSE IF IsAfterDate(mStart1, mEnd1) \/ IsAfterDate(mStart2, mEnd2) THEN Null
  ELSE LET intersectionStart == MomentMax(mStart1, mStart2)
           intersectionEnd == MomentMin(mEnd1, mEnd2)
       IN IF IsectDisjoint(intersectionStart, intersectionEnd) THEN Null
          ELSE Value([start |-> intersectionStart, end |-> intersectionEnd])

IsectCall ==
  /\ isect.pc = "call"
  /\ isect' = [isect EXCEPT
                 !.pc = "done",
                 !.result = GetDateRangeIntersection(isect.in.start1, isect.in.end1,
                                                     isect.in.start2, isect.in.end2)]
  /\ UNCHANGED <<recur, split, nbd, slots, agg, batch, prim, retry, deb, thr, memo, trunc>>

NextIsect ==
  \/ IsectCall /\ UNCHANGED heap

SpecIsect == InitIsect /\ [][NextIsect]_vars

\* ---------------------------------------- claims on getDateRangeIntersection

\* Two results are the same outcome: both null, or ranges with the same
\* start instant and the same end instant.
SameIntersection(a, b) ==
  /\ a.isNull = b.isNull
  /\ ~a.isNull => /\ IsSameDate(a.value.start, b.value.start)
                  /\ IsSameDate(a.value.end, b.value.end)

\* A range with valid endpoints and start <= end.
ValidRange(s, e) == IsValid(s) /\ IsValid(e) /\ IsSameOrBeforeDate(s, e)

\* A finished call on two valid ranges.
IsectValidDone ==
  /\ isect.pc = "done"
  /\ ValidRange(isect.in.start1, isect.in.end1)
  /\ ValidRange(isect.in.start2, isect.in.end2)

\* C6: for valid ranges A and B the intersection of A with B and of B with
\* A are both null or ranges with equal start and equal end.
C6_IsectSymmetric ==
  IsectValidDone =>
    SameIntersection(isect.result,
                     GetDateRangeIntersection(isect.in.start2, isect.in.end2,
                                              isect.in.start1, isect.in.end1))

\* Two different ranges that overlap properly, first range starting first.
C6_Witness ==
  /\ IsectValidDone
  /\ ~isect.result.isNull
  /\ IsBeforeDate(isect.in.start1, isect.in.start2)
  /\ IsBeforeDate(isect.in.end1, isect.in.end2)
  /\ IsBeforeDate(isect.result.value.start, isect.result.value.end)

\* The later of two valid moments / the earlier of two valid moments.
LaterOf(a, b) == IF IsBeforeDate(a, b) THEN b ELSE a
EarlierOf(a, b) == IF IsBeforeDate(b, a) THEN b ELSE a

\* C7: for valid ranges the result is {max of the starts, min of the ends}
\* whenever that start <= that end (a zero-length range included) and null
\* exactly when that start is after that end.
C7_IsectMaxMin ==
  IsectValidDone =>
    LET lo == LaterOf(isect.in.start1, isect.in.start2)
        hi == EarlierOf(isect.in.end1, isect.in.end2)
    IN /\ isect.result.isNull <=> IsAfterDate(lo, hi)
       /\ ~isect.result.isNull => /\ IsSameDate(isect.result.value.start, lo)
                                  /\ IsSameDate(isect.result.value.end, hi)

\* Two ranges that touch at one instant give the zero-length range there.
C7_Witness ==
  /\ IsectValidDone
  /\ IsBeforeDate(isect.in.start1, isect.in.end1)
  /\ IsSameDate(isect.in.end1, isect.in.start2)
  /\ IsBeforeDate(isect.in.start2, isect.in.end2)
  /\ ~isect.result.isNull
  /\ IsSameDate(isect.result.value.start, isect.result.value.end)

\* Spec example 2: {06-01..06-10} and {06-05..06-15} give {06-05..06-10}.
C7_Example ==
  /\ isect.pc = "done"
  /\ isect.in = [start1 |-> Utc(Ymd(2025, 6, 1), 0, 0), end1 |-> Utc(Ymd(2025, 6, 10), 0, 0),
                 start2 |-> Utc(Ymd(2025, 6, 5), 0, 0), end2 |-> Utc(Ymd(2025, 6, 15), 0, 0)]
  /\ isect.result = Value([start |-> Utc(Ymd(2025, 6, 5), 0, 0), end |-> Utc(Ymd(2025, 6, 10), 0, 0)])

\* Malformed input: an unparsable endpoint, or a range with start > end.
IsectMalformed(i) ==
  ~ValidRange(i.start1, i.end1) \/ ~ValidRange(i.start2, i.end2)

\* A finished call on two valid ranges that have no instant in common.
IsectDisjointDone ==
  /\ IsectValidDone
  /\ \/ IsBeforeDate(isect.in.end1, isect.in.start2)
     \/ IsBeforeDate(isect.in.end2, isect.in.start1)

\* C8 as stated: the result for two valid disjoint ranges is never the
\* value returned for malformed input.
C8_Original ==
  IsectDisjointDone =>
    \A m \in IsectInputs :
      IsectMalformed(m) =>
        ~SameIntersection(isect.result,
                          GetDateRangeIntersection(m.start1, m.end1, m.start2, m.end2))

\* C8 amended: the result for two valid disjoint ranges is null, the very
\* value returned for every malformed input.
C8_DisjointIsNull ==
  IsectDisjointDone =>
    /\ isect.result.isNull
    /\ \A m \in IsectInputs :
         IsectMalformed(m) =>
           SameIntersection(isect.result,
                            GetDateRangeIntersection(m.start1, m.end1, m.start2, m.end2))

\* A finished call on two valid disjoint ranges of positive length.
C8_Witness ==
  /\ IsectDisjointDone
  /\ IsBeforeDate(isect.in.start1, isect.in.end1)
  /\ IsBeforeDate(isect.in.start2, isect.in.end2)
  /\ isect.result.isNull

\* ------------------------------------------------------- getNextBusinessDay

\* Dates: Friday 2025-06-06 (midnight and 12:00:30.500), Saturday
\* 2025-06-07, Tuesday 2025-06-10, Friday 2025-06-06 21:00 UTC as a moment
\* in Asia/Kolkata (already Saturday there), and an unparsable value.
NbdDates ==
  { Utc(Ymd(2025, 6, 6), 0, 0), Utc(Ymd(2025, 6, 6), Tod(12, 0, 30, 500), 0),
    Utc(Ymd(2025, 6, 7), 0, 0), Utc(Ymd(2025, 6, 10), 0, 0),
    Utc(Ymd(2025, 6, 6), Tod(21, 0, 0, 0), ZoneOffset("Asia/Kolkata")), InvalidMoment }

\* Dates in local mode on a system in America/New_York, before the clocks
\* change on Sunday 2025-03-09: Friday 2025-03-07 and Saturday 2025-03-08,
\* at 02:30 and at 12:00.
NbdLocalDstDates ==
  { LocalDstFromWallClock(Ymd(2025, 3, dd), tod) :
      dd \in {7, 8}, tod \in {Tod(2, 30, 0, 0), Tod(12, 0, 0, 0)} }

\* Holidays to choose from, in array order: Monday 2025-06-09, Tuesday
\* 2025-06-10 at 15:00, Wednesday 2025-06-11 (as 2025-06-10 20:00 UTC shown
\* in Asia/Kolkata), an unparsable entry, and Thursday 2025-06-12.
HolidayPool ==
  << Utc(Ymd(2025, 6, 9), 0, 0), Utc(Ymd(2025, 6, 10), Tod(15, 0, 0, 0), 0),
     Utc(Ymd(2025, 6, 10), Tod(20, 0, 0, 0), ZoneOffset("Asia/Kolkata")), InvalidMoment,
     Utc(Ymd(2025, 6, 12), 0, 0) >>

RECURSIVE SubSeqOf(_, _, _)
\* The entries of seq from index i on whose index is in keep, in order.
SubSeqOf(seq, keep, i) ==
  IF i > Len(seq) THEN <<>>
  ELSE (IF i \in keep THEN <<seq[i]>> ELSE <<>>) \o SubSeqOf(seq, keep, i + 1)

HolidayLists == { SubSeqOf(HolidayPool, keep, 1) : keep \in SUBSET (1..Len(HolidayPool)) }

InitNbd ==
  /\ nbd \in { [pc |-> "call", date |-> dt, holidays |-> h, holidayDates |-> <<>>,
                nextDay |-> InvalidMoment, result |-> Null, calls |-> 1,
                first |-> InvalidMoment] :
                  dt \in NbdDates \cup NbdLocalDstDates, h \in HolidayLists }
  /\ recur = Idle /\ isect = Idle /\ split = Idle /\ slots = Idle /\ agg = Idle /\ batch = Idle /\ prim = Idle /\ retry = Idle /\ deb = Idle /\ heap = Idle /\ thr = Idle /\ memo = Idle /\ trunc = Idle

RECURSIVE HolidayDatesFrom(_, _)
\* Lines 125-127: the year-month-day of every holiday that is valid.
HolidayDatesFrom(holidays, i) ==
  IF i > Len(holidays) THEN <<>>
  ELSE (IF IsValid(holidays[i]) THEN <<FormatYmd(holidays[i])>> ELSE <<>>)
       \o HolidayDatesFrom(holidays, i + 1)

\* Array.prototype.includes
Includes(arr, x) == \E i \in 1..Len(arr) : arr[i] = x

\* NbdFirstCandidate that starts the search at the date itself.
NbdFirstCandidateSameDay(momentDate) == momentDate

\* Line 129: the first candidate is the day after the date.
NbdFirstCandidate(momentDate) == AddTime(momentDate, 1, "days")

\* Line 130: the candidate is a weekend day or a holiday.
NbdSkips(nextDay, holidayDates) ==
  Day(nextDay) = 0 \/ Day(nextDay) = 6 \/ Includes(holidayDates, FormatYmd(nextDay))

\* Lines 122-129: validation, the holiday keys and the first candidate.
NbdCall ==
  /\ nbd.pc = "call"
  /\ IF ~IsValid(nbd.date)
     THEN nbd' = [nbd EXCEPT !.pc = "done", !.result = Null]
     ELSE nbd' = [nbd EXCEPT !.pc = "loop",
                             !.holidayDates = HolidayDatesFrom(nbd.holidays, 1),
                             !.nextDay = NbdFirstCandidate(nbd.date)]
  /\ UNCHANGED <<recur, isect, split, slots, agg, batch, prim, retry, deb, thr, memo, trunc>>

\* Lines 130-133: one test of the loop condition and one pass of its body.
NbdLoop ==
  /\ nbd.pc = "loop"
  /\ IF NbdSkips(nbd.nextDay, nbd.holidayDates)
     THEN nbd' = [nbd EXCEPT !.nextDay = AddTime(nbd.nextDay, 1, "days")]
     ELSE nbd' = [nbd EXCEPT !.pc = "done", !.result = Value(nbd.nextDay)]
  /\ UNCHANGED <<recur, isect, split, slots, agg, batch, prim, retry, deb, thr, memo, trunc>>

\* A caller passes the result of the first call back in, with the same
\* holidays: getNextBusinessDay(getNextBusinessDay(D, H), H).
NbdAgain ==
  /\ nbd.pc = "done" /\ nbd.calls = 1 /\ ~nbd.result.isNull
  /\ nbd' = [nbd EXCEPT !.pc = "call", !.calls = 2, !.first = nbd.result.value,
                        !.date = nbd.result.value, !.result = Null,
                        !.holidayDates = <<>>, !.nextDay = InvalidMoment]
  /\ UNCHANGED <<recur, isect, split, slots, agg, batch, prim, retry, deb, thr, memo, trunc>>

NextNbd ==
  \/ NbdCall /\ UNCHANGED heap
  \/ NbdLoop /\ UNCHANGED heap
  \/ NbdAgain /\ UNCHANGED heap

SpecNbd == InitNbd /\ [][NextNbd]_vars

\* --------------------------------------------- claims on getNextBusinessDay

\* C10: for a valid date D and holidays H the result is strictly after D,
\* is neither Saturday nor Sunday, has a year-month-day that is the
\* year-month-day of no valid holiday; and the result of the second of two
\* successive calls is strictly after the result of the first.
C10_NextBusinessDay ==
  (nbd.pc = "done" /\ IsValid(nbd.date)) =>
    /\ ~nbd.result.isNull
    /\ IsAfterDate(nbd.result.value, nbd.date)
    /\ Day(nbd.result.value) \notin {0, 6}
    /\ \A i \in 1..Len(nbd.holidays) :
         IsValid(nbd.holidays[i]) => FormatYmd(nbd.holidays[i]) # FormatYmd(nbd.result.value)
    /\ nbd.calls = 2 => IsAfterDate(nbd.result.value, nbd.first)

\* The second call has finished: its input, the first result, was itself a
\* business day, and the call skipped a holiday or a weekend to get to a
\* later business day.
C10_Witness ==
  /\ nbd.pc = "done" /\ nbd.calls = 2 /\ ~nbd.result.isNull
  /\ Len(nbd.holidayDates) >= 2
  /\ Day(nbd.first) \notin {0, 6}
  /\ ~Includes(nbd.holidayDates, FormatYmd(nbd.first))
  /\ nbd.result.value.d - nbd.first.d >= 2

\* -------------------------------------------------------- generateTimeSlots

\* constraints.hours: the window as hour and minute of its start and end
\* ('HH:mm' strings in the source, parsed by moment(..., 'HH:mm')).
DefaultHours == [start |-> [hour |-> 0, minute |-> 0], end |-> [hour |-> 23, minute |-> 59]]
OfficeHours == [start |-> [hour |-> 9, minute |-> 0], end |-> [hour |-> 17, minute |-> 0]]

\* constraints.days: the excluded weekdays, as an array.
ExcludedDays == { <<>>, <<0, 6>>, <<2>> }

\* Slot lengths in minutes: multiples of 30, and the malformed steps.
SlotDurations == { Num(30 * k) : k \in 1..MaxStep } \cup BadSteps

\* Starts: Tuesday 2025-06-10 at midnight, at 08:00:30.500 and at
\* 12:00:30.500, and Saturday 2025-06-07 at midnight.
SlotStarts ==
  { Utc(Ymd(2025, 6, 10), 0, 0), Utc(Ymd(2025, 6, 10), Tod(8, 0, 30, 500), 0),
    Utc(Ymd(2025, 6, 10), Tod(12, 0, 30, 500), 0), Utc(Ymd(2025, 6, 7), 0, 0) }

\* Ends: k days after the start's day, at midnight, 10:15 or 23:59:59.999.
SlotEndTods == {0, Tod(10, 15, 0, 0), Tod(23, 59, 59, 999)}

SlotInputs ==
  { [startDate |-> s, endDate |-> Utc(s.d + k, tod, 0), slotDuration |-> dur,
     constraints |-> [days |-> dys, hours |-> hrs], timezone |-> tz] :
      s \in SlotStarts, k \in 0..(MaxSpan - 1), tod \in SlotEndTods, dur \in SlotDurations,
      dys \in ExcludedDays, hrs \in {DefaultHours, OfficeHours}, tz \in Timezones } \cup
  { [startDate |-> s, endDate |-> e, slotDuration |-> Num(30),
     constraints |-> [days |-> <<>>, hours |-> OfficeHours], timezone |-> ""] :
      s \in {InvalidMoment, Utc(Ymd(2025, 6, 12), 0, 0)},
      e \in {InvalidMoment, Utc(Ymd(2025, 6, 10), 0, 0)} }

InitSlots ==
  /\ slots \in { [pc |-> "call", in |-> i, current |-> InvalidMoment, endWithTz |-> InvalidMoment,
                  dayStart |-> InvalidMoment, dayEnd |-> InvalidMoment,
                  slotStart |-> InvalidMoment, slots |-> <<>>, result |-> Null] :
                 i \in SlotInputs }
  /\ recur = Idle /\ isect = Idle /\ split = Idle /\ nbd = Idle /\ agg = Idle /\ batch = Idle /\ prim = Idle /\ retry = Idle /\ deb = Idle /\ heap = Idle /\ thr = Idle /\ memo = Idle /\ trunc = Idle

\* Lines 148-149: the two early returns of null.
SlotsRejects(start, end, slotDuration, timezone) ==
  \/ ~IsValid(start) \/ ~IsValid(end)
  \/ ~NumberIsInteger(slotDuration) \/ NumberLeqZero(slotDuration)
  \/ (timezone # "" /\ ~ZoneExists(timezone))

\* Lines 146-154: argument validation and loop set-up.
SlotsCall ==
  /\ slots.pc = "call"
  /\ LET start == slots.in.startDate
         end == slots.in.endDate
         timezone == slots.in.timezone
     IN IF SlotsRejects(start, end, slots.in.slotDuration, timezone)
        THEN slots' = [slots EXCEPT !.pc = "done", !.result = Null]
        ELSE slots' = [slots EXCEPT
                         !.pc = "day",
                         !.slots = <<>>,
                         !.current = IF timezone # "" THEN SetTimezone(start, timezone) ELSE start,
                         !.endWithTz = IF timezone # "" THEN SetTimezone(end, timezone) ELSE end]
  /\ UNCHANGED <<recur, isect, split, nbd, agg, batch, prim, retry, deb, thr, memo, trunc>>

\* Line 168: the start of the day after current.
SlotsNextDay(current) == SetStartOfUnit(AddTime(current, 1, "days"), "days")

\* SlotsNextSlotStart that advances by seconds instead of minutes.
SlotsNextSlotStartSeconds(slotStart, slotDuration) == AddTime(slotStart, slotDuration, "seconds")

\* Line 165: the start of the slot after the one that starts at slotStart.
SlotsNextSlotStart(slotStart, slotDuration) == AddTime(slotStart, slotDuration, "minutes")

\* SlotsGate that lets a day through when either test passes.
SlotsGateEither(days, current, dayStart, endWithTz) ==
  ~Includes(days, Day(current)) \/ IsSameOrBeforeDate(dayStart, endWithTz)

\* Line 159: a day gets slots when its weekday is not excluded and its
\* window starts no later than the overall end.
SlotsGate(days, current, dayStart, endWithTz) ==
  ~Includes(days, Day(current)) /\ IsSameOrBeforeDate(dayStart, endWithTz)

\* Lines 156-159 and 168: one test of the day loop's condition; the window
\* of the day; the gate on the weekday and on the window's start.
SlotsDay ==
  /\ slots.pc = "day"
  /\ LET current == slots.current
         hours == slots.in.constraints.hours
         dayStart == SetHourMinute(current, hours.start.hour, hours.start.minute)
         dayEnd == SetHourMinute(current, hours.end.hour, hours.end.minute)
     IN IF ~IsSameOrBeforeDate(current, slots.endWithTz)
        THEN slots' = [slots EXCEPT !.pc = "done", !.result = Value(slots.slots)]
        ELSE IF SlotsGate(slots.in.constraints.days, current, dayStart, slots.endWithTz)
        THEN slots' = [slots EXCEPT !.pc = "slot", !.dayStart = dayStart, !.dayEnd = dayEnd,
                                    !.slotStart = dayStart]
        ELSE slots' = [slots EXCEPT !.dayStart = dayStart, !.dayEnd = dayEnd,
                                    !.current = SlotsNextDay(current)]
  /\ UNCHANGED <<recur, isect, split, nbd, agg, batch, prim, retry, deb, thr, memo, trunc>>

\* Lines 161-166 and 168: one test of the slot loop's condition and one
\* pass of its body; leaving the loop moves current to the next day.
SlotsSlot ==
  /\ slots.pc = "slot"
  /\ LET slotStart == slots.slotStart
         slotDuration == slots.in.slotDuration.v
         slotEnd == AddTime(slotStart, slotDuration, "minutes")
     IN IF /\ IsSameOrBeforeDate(slotStart, slots.dayEnd)
           /\ IsSameOrBeforeDate(slotStart, slots.endWithTz)
           /\ ~(IsAfterDate(slotEnd, slots.dayEnd) \/ IsAfterDate(slotEnd, slots.endWithTz))
        THEN slots' = [slots EXCEPT
                         !.slots = Append(slots.slots,
                                          [start |-> slotStart, end |-> slotEnd,
                                           dayStart |-> slots.dayStart, dayEnd |-> slots.dayEnd]),
                         !.slotStart = SlotsNextSlotStart(slotStart, slotDuration)]
        ELSE slots' = [slots EXCEPT !.pc = "day", !.current = SlotsNextDay(slots.current)]
  /\ UNCHANGED <<recur, isect, split, nbd, agg, batch, prim, retry, deb, thr, memo, trunc>>

NextSlots ==
  \/ SlotsCall /\ UNCHANGED heap
  \/ SlotsDay /\ UNCHANGED heap
  \/ SlotsSlot /\ UNCHANGED heap

SpecSlots == InitSlots /\ [][NextSlots]_vars

\* ---------------------------------------------- claims on generateTimeSlots

\* A finished call that passed validation.
SlotsValidDone ==
  /\ slots.pc = "done"
  /\ ~SlotsRejects(slots.in.startDate, slots.in.endDate, slots.in.slotDuration, slots.in.timezone)

\* C3 as stated: every returned slot lies within the overall range
\* (start <= slot.start, slot.end <= end) and within the window of its day
\* (dayStart <= slot.start, slot.end <= dayEnd), for every start.
C3_Original ==
  SlotsValidDone =>
    /\ ~slots.result.isNull
    /\ \A i \in 1..Len(slots.result.value) :
         LET sl == slots.result.value[i] IN
         /\ IsSameOrBeforeDate(slots.in.startDate, sl.start)
         /\ IsSameOrBeforeDate(sl.end, slots.in.endDate)
         /\ IsSameOrBeforeDate(sl.dayStart, sl.start)
         /\ IsSameOrBeforeDate(sl.end, sl.dayEnd)

\* C4: every returned slot is exactly slotDuration minutes long, and of two
\* consecutive slots of the result the first ends no later than the second
\* starts, within a day and from one day to the next.
C4_SlotsExactDisjoint ==
  SlotsValidDone =>
    LET sl == slots.result.value IN
    /\ ~slots.result.isNull
    /\ \A i \in 1..Len(sl) :
         SpanBetween(sl[i].end, sl[i].start) = Dur(0, slots.in.slotDuration.v * MsPerMinute)
    /\ \A i \in 1..(Len(sl) - 1) : IsSameOrBeforeDate(sl[i].end, sl[i + 1].start)

\* A result with slots on two different days, the first day holding two
\* slots that touch and the day change falling between two slots.
C4_Witness ==
  /\ SlotsValidDone
  /\ Len(slots.result.value) >= 4
  /\ IsSameDate(slots.result.value[1].end, slots.result.value[2].start)
  /\ \E i \in 1..(Len(slots.result.value) - 1) :
       LocalDay(slots.result.value[i].start) # LocalDay(slots.result.value[i + 1].start)

\* ------------------------------------- the four looping operations together

\* A string that is no unit of moment.
UnknownUnit == "fortnights"

\* The most passes of a loop that is followed when the unit is no unit of
\* moment: such a loop never leaves on its own.
MaxIterations == MaxSpan + 2

\* Calls that pass the validation of lines 16-17 and of line 81 with a unit
\* that moment does not recognise.
RecurUnknownUnitInputs ==
  { [startDate |-> s, endDate |-> AddTime(s, k, "days"), intervalUnit |-> UnknownUnit,
     intervalValue |-> iv, timezone |-> ""] :
      s \in StartMoments, k \in 0..MaxSpan, iv \in ValidSteps }

SplitUnknownUnitInputs ==
  { [startDate |-> s, endDate |-> AddTime(s, k, "days"), unit |-> UnknownUnit, chunkSize |-> c] :
      s \in StartMoments, k \in 0..MaxSpan, c \in ValidSteps }

InitLoops ==
  \/ InitRecur
  \/ InitSplit
  \/ InitNbd
  \/ InitSlots
  \/ /\ recur \in { [pc |-> "call", in |-> i, current |-> InvalidMoment,
                     endWithTz |-> InvalidMoment, events |-> <<>>, result |-> Null] :
                    i \in RecurUnknownUnitInputs }
     /\ isect = Idle /\ split = Idle /\ nbd = Idle /\ slots = Idle /\ agg = Idle /\ batch = Idle /\ prim = Idle /\ retry = Idle /\ deb = Idle /\ heap = Idle /\ thr = Idle /\ memo = Idle /\ trunc = Idle
  \/ /\ split \in { [pc |-> "call", in |-> i, currentStart |-> InvalidMoment,
                     ranges |-> <<>>, result |-> Null] : i \in SplitUnknownUnitInputs }
     /\ recur = Idle /\ isect = Idle /\ nbd = Idle /\ slots = Idle /\ agg = Idle /\ batch = Idle /\ prim = Idle /\ retry = Idle /\ deb = Idle /\ heap = Idle /\ thr = Idle /\ memo = Idle /\ trunc = Idle

\* A loop whose unit is no unit of moment is followed for MaxIterations
\* passes only.
LoopsBounded ==
  /\ (recur.pc = "loop" /\ recur.in.intervalUnit \notin MomentUnits)
       => Len(recur.events) < MaxIterations
  /\ (split.pc = "loop" /\ split.in.unit \notin MomentUnits)
       => Len(split.ranges) < MaxIterations

NextLoops ==
  \/ LoopsBounded /\ NextRecur
  \/ LoopsBounded /\ NextSplit
  \/ NextNbd
  \/ NextSlots

SpecLoops == InitLoops /\ [][NextLoops]_vars

\* ----------------------------------------- claims on the looping operations

\* A step that is zero, negative or no integer.
StepMalformed(x) == ~x.int \/ x.v <= 0

\* A timezone argument that is given and names no zone.
ZoneUnknown(tz) == tz # "" /\ tz \notin KnownZones

\* C11: generateRecurringEvents, splitDateRange and generateTimeSlots with a
\* step that is zero, negative or no integer, and the first and the last
\* of them with a timezone that is no zone, never enter their loop, collect
\* no element and return null.
C11_StepAndZoneRejected ==
  /\ (recur.pc # "idle" /\ (StepMalformed(recur.in.intervalValue) \/ ZoneUnknown(recur.in.timezone)))
       => /\ recur.pc \in {"call", "done"}
          /\ recur.events = <<>>
          /\ recur.pc = "done" => recur.result.isNull
  /\ (split.pc # "idle" /\ StepMalformed(split.in.chunkSize))
       => /\ split.pc \in {"call", "done"}
          /\ split.ranges = <<>>
          /\ split.pc = "done" => split.result.isNull
  /\ (slots.pc # "idle" /\ (StepMalformed(slots.in.slotDuration) \/ ZoneUnknown(slots.in.timezone)))
       => /\ slots.pc \in {"call", "done"}
          /\ slots.slots = <<>>
          /\ slots.pc = "done" => slots.result.isNull

\* A generateTimeSlots call that has returned null for a slot length of zero
\* on an otherwise valid range with a zone that exists.
C11_Witness ==
  /\ slots.pc = "done"
  /\ slots.in.slotDuration = Num(0)
  /\ slots.in.timezone = "Asia/Kolkata"
  /\ IsValid(slots.in.startDate) /\ IsValid(slots.in.endDate)
  /\ IsBeforeDate(slots.in.startDate, slots.in.endDate)
  /\ slots.result.isNull

\* C12 as stated: splitDateRange on two valid instants with start > end and
\* a positive integer chunkSize fails, that is, returns null and no
\* sequence of chunks.
C12_Original ==
  ( /\ split.pc = "done"
    /\ IsValid(split.in.startDate) /\ IsValid(split.in.endDate)
    /\ IsAfterDate(split.in.startDate, split.in.endDate)
    /\ split.in.chunkSize.int /\ split.in.chunkSize.v > 0 )
    => split.result.isNull

\* ------------------------------------------------ aggregateDateRanges calls

\* Ranges: two days and a half, a zero-length one, one hour, one with
\* start > end, one with an invalid start and one with an invalid end.
AggRangePool ==
  { [start |-> Utc(Ymd(2025, 6, 10), 0, 0), end |-> Utc(Ymd(2025, 6, 12), Tod(12, 0, 30, 500), 0)],
    [start |-> Utc(Ymd(2025, 6, 10), 0, 0), end |-> Utc(Ymd(2025, 6, 10), 0, 0)],
    [start |-> Utc(Ymd(2025, 1, 30), Tod(20, 0, 0, 0), ZoneOffset("Asia/Kolkata")),
     end |-> Utc(Ymd(2025, 1, 30), Tod(21, 0, 0, 0), 0)],
    [start |-> Utc(Ymd(2025, 6, 12), 0, 0), end |-> Utc(Ymd(2025, 6, 10), 0, 0)],
    [start |-> InvalidMoment, end |-> Utc(Ymd(2025, 6, 10), 0, 0)],
    [start |-> Utc(Ymd(2025, 6, 10), 0, 0), end |-> InvalidMoment] }

\* The arrays of at most MaxSpan ranges of the pool.
AggRangeLists == UNION { [1..n -> AggRangePool] : n \in 0..MaxSpan }

\* The ranges argument: an array, or a value that is no array.
AggInputs ==
  { [isArray |-> TRUE, ranges |-> rs, unit |-> u] : rs \in AggRangeLists, u \in AggregateUnits } \cup
  { [isArray |-> FALSE, ranges |-> <<>>, unit |-> u] : u \in AggregateUnits }

InitAgg ==
  /\ agg \in { [pc |-> "call", in |-> i, result |-> Null] : i \in AggInputs }
  /\ recur = Idle /\ isect = Idle /\ split = Idle /\ nbd = Idle /\ slots = Idle /\ batch = Idle /\ prim = Idle /\ retry = Idle /\ deb = Idle /\ heap = Idle /\ thr = Idle /\ memo = Idle /\ trunc = Idle

\* Lines 103-113.
AggCall ==
  /\ agg.pc = "call"
  /\ agg' = [agg EXCEPT !.pc = "done",
                        !.result = IF ~agg.in.isArray THEN Null
                                   ELSE AggregateDateRanges(agg.in.ranges, agg.in.unit)]
  /\ UNCHANGED <<recur, isect, split, nbd, slots, batch, prim, retry, deb, thr, memo, trunc>>

NextAgg ==
  \/ AggCall /\ UNCHANGED heap

SpecAgg == InitAgg /\ [][NextAgg]_vars

\* ------------------------------------------- claims on aggregateDateRanges

\* A range with two valid endpoints and start <= end.
RangeWellFormed(r) == r.start.valid /\ r.end.valid /\ ~IsAfterDate(r.start, r.end)

RECURSIVE SumOfSpans(_, _)
\* The sum of end - start over the first n ranges.
SumOfSpans(ranges, n) ==
  IF n = 0 THEN Dur(0, 0)
  ELSE DurAdd(SpanBetween(ranges[n].end, ranges[n].start), SumOfSpans(ranges, n - 1))

\* C13: aggregateDateRanges of an array returns 0 for the empty array, the
\* sum of end - start in the unit when every range is well formed, and null
\* as soon as one range, at whatever position, is not.
C13_AggregateAllOrNothing ==
  (agg.pc = "done" /\ agg.in.isArray) =>
    LET rs == agg.in.ranges IN
    /\ (Len(rs) = 0) => (~agg.result.isNull /\ agg.result.value.span = Dur(0, 0))
    /\ (\A i \in 1..Len(rs) : RangeWellFormed(rs[i])) =>
         /\ ~agg.result.isNull
         /\ agg.result.value.span = SumOfSpans(rs, Len(rs))
         /\ agg.result.value.per = UnitMs(agg.in.unit)
    /\ (\E i \in 1..Len(rs) : ~RangeWellFormed(rs[i])) => agg.result.isNull

\* A finished call on three ranges of which only the middle one is
\* malformed (start > end), with null as its result.
C13_Witness ==
  /\ agg.pc = "done" /\ agg.in.isArray /\ Len(agg.in.ranges) = 3
  /\ RangeWellFormed(agg.in.ranges[1]) /\ RangeWellFormed(agg.in.ranges[3])
  /\ agg.in.ranges[1] # agg.in.ranges[3]
  /\ IsValid(agg.in.ranges[2].start) /\ IsValid(agg.in.ranges[2].end)
  /\ IsAfterDate(agg.in.ranges[2].start, agg.in.ranges[2].end)
  /\ agg.result.isNull

\* --------------------------------------------------- batchConvertTimezone

\* The format argument: the default, a date-only pattern, and a pattern that
\* holds nothing but an empty escaped literal.
DefaultBatchFormat == "YYYY-MM-DD HH:mm:ss z"
BatchFormats == {DefaultBatchFormat, "YYYY-MM-DD", "[]"}

\* The abbreviation moment-timezone prints for 'z'.
ZoneAbbr(zone) == IF zone = "Asia/Kolkata" THEN "IST" ELSE "UTC"

\* moment#format(format) of a moment in the given zone. A formatted string
\* is the tuple of the fields it prints; the pattern '[]' prints nothing, so
\* its result is the empty string.
FormatDate(m, zone, format) ==
  LET lt == LocalMs(m) IN
  CASE format = "[]" -> <<>>
    [] format = "YYYY-MM-DD" -> FormatYmd(m)
    [] OTHER -> FormatYmd(m) \o << lt \div MsPerHour, (lt % MsPerHour) \div MsPerMinute,
                                    (lt % MsPerMinute) \div MsPerSecond, ZoneAbbr(zone) >>

\* Lines 39-42: the string one element of dates is mapped to.
BatchMapOne(date, targetTimezone, format) ==
  IF ~IsValid(date) THEN <<>>
  ELSE FormatDate(SetTimezone(date, targetTimezone), targetTimezone, format)

\* Line 43: the filter keeps the strings that are not ''.
BatchKeeps(date, formatted) == formatted # <<>>

RECURSIVE BatchFrom(_, _, _, _)
\* Lines 39-43: map, then filter, from index i on.
BatchFrom(dates, targetTimezone, format, i) ==
  IF i > Len(dates) THEN <<>>
  ELSE LET formatted == BatchMapOne(dates[i], targetTimezone, format)
       IN (IF BatchKeeps(dates[i], formatted) THEN <<formatted>> ELSE <<>>)
          \o BatchFrom(dates, targetTimezone, format, i + 1)

\* Lines 37-44.
BatchConvertTimezone(isArray, dates, targetTimezone, format) ==
  IF ~isArray \/ ~ZoneExists(targetTimezone) THEN Null
  ELSE Value(BatchFrom(dates, targetTimezone, format, 1))

\* Elements of dates: valid instants, one of them a moment in another zone,
\* and a value that parses to no instant.
BatchDatePool ==
  { Utc(Ymd(2025, 6, 10), 0, 0), Utc(Ymd(2025, 6, 10), Tod(20, 0, 30, 500), 0),
    Utc(Ymd(2025, 1, 30), Tod(20, 0, 0, 0), ZoneOffset("Asia/Kolkata")), InvalidMoment }

BatchDateLists == UNION { [1..n -> BatchDatePool] : n \in 0..MaxSpan }

BatchInputs ==
  { [isArray |-> TRUE, dates |-> ds, targetTimezone |-> tz, format |-> f] :
      ds \in BatchDateLists, tz \in KnownZones \cup {"Mars/Phobos"}, f \in BatchFormats } \cup
  { [isArray |-> FALSE, dates |-> <<>>, targetTimezone |-> tz, format |-> DefaultBatchFormat] :
      tz \in KnownZones }

InitBatch ==
  /\ batch \in { [pc |-> "call", in |-> i, result |-> Null] : i \in BatchInputs }
  /\ recur = Idle /\ isect = Idle /\ split = Idle /\ nbd = Idle /\ slots = Idle /\ agg = Idle /\ prim = Idle /\ retry = Idle /\ deb = Idle /\ heap = Idle /\ thr = Idle /\ memo = Idle /\ trunc = Idle

BatchCall ==
  /\ batch.pc = "call"
  /\ batch' = [batch EXCEPT
                 !.pc = "done",
                 !.result = BatchConvertTimezone(batch.in.isArray, batch.in.dates,
                                                 batch.in.targetTimezone, batch.in.format)]
  /\ UNCHANGED <<recur, isect, split, nbd, slots, agg, prim, retry, deb, thr, memo, trunc>>

NextBatch ==
  \/ BatchCall /\ UNCHANGED heap

SpecBatch == InitBatch /\ [][NextBatch]_vars

\* ------------------------------------------ claims on batchConvertTimezone

\* The indices of the valid elements of dates, in order.
ValidIndices(dates) == { i \in 1..Len(dates) : dates[i].valid }

\* The i-th smallest element of a set of numbers.
RECURSIVE NthOf(_, _)
NthOf(S, i) ==
  LET least == CHOOSE x \in S : \A y \in S : x <= y
  IN IF i = 1 THEN least ELSE NthOf(S \ {least}, i - 1)

\* C14 as stated: an unknown target zone fails the whole call; otherwise
\* the result holds one string per valid element of dates, in input order:
\* its length is the number of valid elements and its i-th string is the
\* i-th valid element converted to the zone and formatted.
C14_Original ==
  (batch.pc = "done" /\ batch.in.isArray) =>
    LET ds == batch.in.dates
        tz == batch.in.targetTimezone
        ok == ValidIndices(ds)
    IN IF tz \notin KnownZones THEN batch.result.isNull
       ELSE /\ ~batch.result.isNull
            /\ Len(batch.result.value) = Cardinality(ok)
            /\ \A i \in 1..Cardinality(ok) :
                 batch.result.value[i] =
                   FormatDate(SetTimezone(ds[NthOf(ok, i)], tz), tz, batch.in.format)

\* A pass of a loop that stays in the loop moves the loop's instant forward.
LoopsAdvance ==
  /\ (recur.pc = "loop" /\ recur'.pc = "loop") => IsBeforeDate(recur.current, recur'.current)
  /\ (split.pc = "loop" /\ split'.pc = "loop")
       => IsBeforeDate(split.currentStart, split'.currentStart)
  /\ (nbd.pc = "loop" /\ nbd'.pc = "loop") => IsBeforeDate(nbd.nextDay, nbd'.nextDay)
  /\ (slots.pc = "slot" /\ slots'.pc = "slot") => IsBeforeDate(slots.slotStart, slots'.slotStart)
  /\ (slots.pc \in {"day", "slot"} /\ slots'.pc = "day")
       => IsBeforeDate(slots.current, slots'.current)

\* C15 as stated: on every input that passes validation each pass of a loop
\* of generateRecurringEvents, splitDateRange, generateTimeSlots (day loop
\* and slot loop) and getNextBusinessDay strictly advances the loop's
\* instant; this is what the termination of the loops rests on.
C15_Original == [][LoopsAdvance]_vars

\* ----------------------------------- claims on the slots of a whole window

\* The offset of the zone the slots are laid out in.
SlotsZoneOffset ==
  IF slots.in.timezone # "" THEN ZoneOffset(slots.in.timezone) ELSE slots.in.startDate.off

\* The instant of wall-clock time hm on local day dn of that zone.
WindowInstant(dn, hm) == FromLocal(dn, hm.hour * MsPerHour + hm.minute * MsPerMinute, SlotsZoneOffset)

\* The length of the daily window in minutes.
WindowMinutes(hours) ==
  (hours.end.hour * 60 + hours.end.minute) - (hours.start.hour * 60 + hours.start.minute)

\* The indices of the returned slots that start on local day dn.
SlotsOnDay(dn) ==
  { i \in 1..Len(slots.result.value) : LocalDay(slots.result.value[i].start) = dn }

\* README line 107 and the spec's example: 2025-06-10 to 2025-06-12, slots
\* of 30 minutes, no Saturday or Sunday, from 09:00 to 17:00.
SlotsExample ==
  [startDate |-> Utc(Ymd(2025, 6, 10), 0, 0), endDate |-> Utc(Ymd(2025, 6, 12), 0, 0),
   slotDuration |-> Num(30), constraints |-> [days |-> <<0, 6>>, hours |-> OfficeHours],
   timezone |-> ""]

\* C16 as stated: on every day that is not excluded and whose whole window
\* lies inside [start, end] the result has exactly floor(W / L) slots, the
\* first of them starting at the window's start; and the example call
\* returns 16 slots of 30 minutes from 09:00 to 17:00 on each of the two
\* weekdays it covers.
C16_Original ==
  SlotsValidDone =>
    LET sl == slots.result.value
        hours == slots.in.constraints.hours
        duration == slots.in.slotDuration.v
        zoned(m) == [m EXCEPT !.off = SlotsZoneOffset]
    IN /\ \A dn \in LocalDay(zoned(slots.in.startDate))..LocalDay(zoned(slots.in.endDate)) :
            ( /\ ~Includes(slots.in.constraints.days, Weekday(dn))
              /\ IsSameOrBeforeDate(slots.in.startDate, WindowInstant(dn, hours.start))
              /\ IsSameOrBeforeDate(WindowInstant(dn, hours.end), slots.in.endDate) )
            => /\ Cardinality(SlotsOnDay(dn)) = WindowMinutes(hours) \div duration
               /\ \A i \in SlotsOnDay(dn) :
                    (\A j \in SlotsOnDay(dn) : i <= j)
                      => IsSameDate(sl[i].start, WindowInstant(dn, hours.start))
       /\ slots.in = SlotsExample =>
            /\ Len(sl) = 32
            /\ \A k \in 0..15 : \A dd \in 0..1 :
                 /\ IsSameDate(sl[16 * dd + k + 1].start,
                               Utc(Ymd(2025, 6, 10 + dd), Tod(9, 0, 0, 0) + k * 30 * MsPerMinute, 0))
                 /\ IsSameDate(sl[16 * dd + k + 1].end,
                               Utc(Ymd(2025, 6, 10 + dd), Tod(9, 30, 0, 0) + k * 30 * MsPerMinute, 0))

\* -------------------------------------- the wrappers of moment.basic-utils

\* Moment objects live in a heap, a sequence of moments; a reference to a
\* Moment object is its index there. Two references to one index are one
\* object.

\* moment#set(unit, value) for the hour of the day and the day of the month.
SetDateComponent(m, unit, value) ==
  IF unit = "hour"
  THEN FromLocal(LocalDay(m), value * MsPerHour + (LocalMs(m) % MsPerHour), m.off)
  ELSE FromLocal(LocalDay(m) - DateOf(LocalDay(m)) + value, LocalMs(m), m.off)

\* Lines 179, 202, 224, 235, 277, 410: the early return of null. momentObj
\* is a objs reference, or 0 for a value that is no Moment object.
PrimRejects(objs, in) ==
  \/ in.momentObj = 0
  \/ ~IsValid(objs[in.momentObj])
  \/ (in.op \in {"addTime", "subtractTime", "setDateComponent"} /\ ~in.isNumber)
  \/ (in.op = "setTimezone" /\ ~ZoneExists(in.unit))

\* What the moment method called by the wrapper makes of the moment m.
PrimTransform(m, in) ==
  CASE in.op = "addTime" -> AddTime(m, in.amount, in.unit)
    [] in.op = "subtractTime" -> AddTime(m, -in.amount, in.unit)
    [] in.op = "setStartOfUnit" -> SetStartOfUnit(m, in.unit)
    [] in.op = "setEndOfUnit" -> SetEndOfUnit(m, in.unit)
    [] in.op = "setTimezone" -> SetTimezone(m, in.unit)
    [] in.op = "setDateComponent" -> SetDateComponent(m, in.unit, in.amount)

\* PrimReceiver on a clone of the argument: a new object at the heap's end.
PrimReceiverClone(objs, ref) == [heap |-> Append(objs, objs[ref]), ref |-> Len(objs) + 1]

\* Lines 180, 203, 225, 236, 278, 411: the object the moment method is
\* called on is the argument itself (momentObj.add(...), not a clone's).
PrimReceiver(objs, ref) == [heap |-> objs, ref |-> ref]

\* One wrapper call: the heap after it and the returned reference. The
\* moment method changes its receiver in place and returns it.
PrimApply(objs, in) ==
  IF PrimRejects(objs, in) THEN [heap |-> objs, result |-> Null]
  ELSE LET r == PrimReceiver(objs, in.momentObj)
       IN [heap |-> [r.heap EXCEPT ![r.ref] = PrimTransform(r.heap[r.ref], in)],
           result |-> Value(r.ref)]

\* The arguments after momentObj, per wrapper: a number or (isNumber FALSE)
\* a string in its place, and a unit, zone or component name.
PrimArgs ==
  { [op |-> o, isNumber |-> n, amount |-> a, unit |-> u] :
      o \in {"addTime", "subtractTime"}, n \in BOOLEAN, a \in 0..MaxStep,
      u \in {"hours", "days", "months", UnknownUnit} } \cup
  { [op |-> o, isNumber |-> TRUE, amount |-> 0, unit |-> u] :
      o \in {"setStartOfUnit", "setEndOfUnit"}, u \in {"hours", "days", "months", "years"} } \cup
  { [op |-> "setTimezone", isNumber |-> TRUE, amount |-> 0, unit |-> z] : z \in Timezones \cup KnownZones } \cup
  { [op |-> "setDateComponent", isNumber |-> n, amount |-> a, unit |-> u] :
      n \in BOOLEAN, a \in 1..(MaxStep + 1), u \in {"hour", "date"} }

\* The caller holds one Moment object (reference 1), valid or not, or
\* passes a value that is no Moment object (reference 0).
InitPrim ==
  /\ prim \in { [pc |-> "call", in |-> [op |-> a.op, isNumber |-> a.isNumber, amount |-> a.amount,
                                       unit |-> a.unit, momentObj |-> ref],
                 heap |-> <<m>>, before |-> m, result |-> Null] :
                a \in PrimArgs, ref \in {0, 1}, m \in StartMoments \cup {InvalidMoment} }
  /\ recur = Idle /\ isect = Idle /\ split = Idle /\ nbd = Idle /\ slots = Idle /\ agg = Idle /\ batch = Idle /\ retry = Idle /\ deb = Idle /\ heap = Idle /\ thr = Idle /\ memo = Idle /\ trunc = Idle

PrimCall ==
  /\ prim.pc = "call"
  /\ LET r == PrimApply(prim.heap, prim.in)
     IN prim' = [prim EXCEPT !.pc = "done", !.heap = r.heap, !.result = r.result]
  /\ UNCHANGED <<recur, isect, split, nbd, slots, agg, batch, retry, deb, thr, memo, trunc>>

NextPrim ==
  \/ PrimCall /\ UNCHANGED heap

SpecPrim == InitPrim /\ [][NextPrim]_vars

\* -------------------------------------------------- claims on the wrappers

\* A finished wrapper call that was not rejected.
PrimAccepted == prim.pc = "done" /\ ~prim.result.isNull

\* C17 as stated: an accepted call returns a new instant (an object other
\* than the argument) and leaves the argument as it was before the call.
C17_Original ==
  PrimAccepted =>
    /\ prim.result.value # prim.in.momentObj
    /\ prim.heap[prim.in.momentObj] = prim.before

\* C17, amended: an accepted call returns the argument itself, changed in
\* place to the transformed instant, and creates no object; a rejected call
\* leaves the heap as it was.
C17_ModifiesArgument ==
  /\ PrimAccepted =>
       /\ prim.result.value = prim.in.momentObj
       /\ Len(prim.heap) = 1
       /\ prim.heap[prim.in.momentObj] = PrimTransform(prim.before, prim.in)
  /\ (prim.pc = "done" /\ prim.result.isNull) => prim.heap = <<prim.before>>

\* addTime(m, 1, 'months') on 2025-01-31 has returned m, which now denotes
\* 2025-02-28 and no longer the instant it denoted before.
C17_Witness ==
  /\ PrimAccepted
  /\ prim.in.op = "addTime" /\ prim.in.amount = 1 /\ prim.in.unit = "months"
  /\ prim.before = Utc(Ymd(2025, 1, 31), 0, 0)
  /\ prim.result.value = prim.in.momentObj
  /\ prim.heap[prim.in.momentObj] = Utc(Ymd(2025, 2, 28), 0, 0)
  /\ prim.heap[prim.in.momentObj] # prim.before

\* --------------------------------------------------------- retryWithBackoff

\* What asyncFunc may resolve with.
AsyncValues == {"a", "b"}

\* The settled promise of the call: resolved with a value or with undefined,
\* or rejected with the error of a validation or of an invocation.
Pending == [state |-> "pending"]
Resolved(v) == [state |-> "resolved", value |-> v]
ResolvedUndefined == [state |-> "resolved", value |-> "undefined"]
Rejected(err) == [state |-> "rejected", error |-> err]

\* Pow2 that is 1 for every n: no backoff.
Pow2Flat(n) == 1

\* 2 to the power n.
RECURSIVE Pow2(_)
Pow2(n) == IF n = 0 THEN 1 ELSE 2 * Pow2(n - 1)

\* JSDoc line 135 and line 138: the default baseDelay.
DefaultBaseDelay == 100

\* maxRetries: 0 to MaxSpan (3 is the default), a negative and a non-integer
\* number; asyncFunc a function or not.
RetryInputs ==
  { [isFunction |-> f, maxRetries |-> r, baseDelay |-> b] :
      f \in BOOLEAN, r \in {Num(k) : k \in -1..MaxSpan} \cup {Frac(1)},
      b \in {DefaultBaseDelay, 0, 250} }

\* How long an invocation of asyncFunc takes to settle, and how long after
\* its due time a timer fires, in milliseconds.
RetryDurations == {0, 1}
RetryLateness == {0, 1}

\* now is the clock. started holds the time of every invocation of
\* asyncFunc, log the outcome of every invocation and the time it settled
\* at, delays the delay of every timer set, and due the time the pending
\* timer is due at.
InitRetry ==
  /\ retry \in { [pc |-> "call", in |-> i, attempt |-> 0, now |-> 0, started |-> <<>>,
                  log |-> <<>>, delays |-> <<>>, due |-> 0, promise |-> Pending] :
                  i \in RetryInputs }
  /\ recur = Idle /\ isect = Idle /\ split = Idle /\ nbd = Idle /\ slots = Idle /\ agg = Idle /\ batch = Idle /\ prim = Idle /\ deb = Idle /\ heap = Idle /\ thr = Idle /\ memo = Idle /\ trunc = Idle

\* Line 142: the loop condition.
RetryLoopTest(attempt, maxRetries) == attempt <= maxRetries

\* Lines 139-142: validation (a throw in an async function rejects its
\* promise) and the start of the loop.
RetryCall ==
  /\ retry.pc = "call"
  /\ IF ~retry.in.isFunction \/ ~NumberIsInteger(retry.in.maxRetries) \/ retry.in.maxRetries.v < 0
     THEN retry' = [retry EXCEPT !.pc = "done",
                                 !.promise = Rejected("Invalid function or retries")]
     ELSE retry' = [retry EXCEPT !.pc = "loop", !.attempt = 1]
  /\ UNCHANGED <<recur, isect, split, nbd, slots, agg, batch, prim, deb, thr, memo, trunc>>

\* Lines 142-144: the loop test and the invocation of asyncFunc, whose
\* promise the function then awaits; leaving the loop by its test ends the
\* function without a return statement.
RetryAttempt ==
  /\ retry.pc = "loop"
  /\ IF ~RetryLoopTest(retry.attempt, retry.in.maxRetries.v)
     THEN retry' = [retry EXCEPT !.pc = "done", !.promise = ResolvedUndefined]
     ELSE retry' = [retry EXCEPT !.pc = "await",
                                 !.started = Append(retry.started, retry.now)]
  /\ UNCHANGED <<recur, isect, split, nbd, slots, agg, batch, prim, deb, thr, memo, trunc>>

\* Lines 144-148: the promise of asyncFunc settles: it resolves with some
\* value, which the function returns, or rejects with an error (named by
\* the number of the invocation), which the function rethrows after the
\* last attempt and else answers by setting a timer.
RetrySettle ==
  /\ retry.pc = "await"
  /\ \E took \in RetryDurations :
       LET attempt == retry.attempt
           maxRetries == retry.in.maxRetries.v
           now == retry.now + took
       IN \/ \E v \in AsyncValues :
               retry' = [retry EXCEPT
                           !.pc = "done", !.now = now,
                           !.log = Append(retry.log, [ok |-> TRUE, value |-> v, at |-> now]),
                           !.promise = Resolved(v)]
          \/ LET error == Len(retry.log) + 1
                 log == Append(retry.log, [ok |-> FALSE, error |-> error, at |-> now])
                 delay == retry.in.baseDelay * Pow2(attempt - 1)
             IN IF attempt = maxRetries
                THEN retry' = [retry EXCEPT !.pc = "done", !.now = now, !.log = log,
                                            !.promise = Rejected(error)]
                ELSE retry' = [retry EXCEPT
                                 !.pc = "wait", !.now = now, !.log = log,
                                 !.delays = Append(retry.delays, delay),
                                 !.due = now + delay]
  /\ UNCHANGED <<recur, isect, split, nbd, slots, agg, batch, prim, deb, thr, memo, trunc>>

\* Lines 148 and 142: the timer fires, at its due time or later, and the
\* loop goes on with attempt++.
RetryTimer ==
  /\ retry.pc = "wait"
  /\ \E late \in RetryLateness :
       retry' = [retry EXCEPT !.pc = "loop", !.attempt = retry.attempt + 1,
                              !.now = retry.due + late]
  /\ UNCHANGED <<recur, isect, split, nbd, slots, agg, batch, prim, deb, thr, memo, trunc>>

NextRetry ==
  \/ RetryCall /\ UNCHANGED heap
  \/ RetryAttempt /\ UNCHANGED heap
  \/ RetrySettle /\ UNCHANGED heap
  \/ RetryTimer /\ UNCHANGED heap

SpecRetry == InitRetry /\ [][NextRetry]_vars

\* ----------------------------------------------- claims on retryWithBackoff

\* A settled call whose arguments passed validation.
RetryAcceptedDone ==
  /\ retry.pc = "done"
  /\ retry.in.isFunction /\ retry.in.maxRetries.int /\ retry.in.maxRetries.v >= 0

\* C19 as stated: for every accepted maxRetries, 0 included, asyncFunc is
\* invoked at least once, and the call either resolves with the result of
\* the first invocation that succeeds or, every invocation having failed,
\* rejects with the error of the last invocation.
C19_Original ==
  RetryAcceptedDone =>
    LET log == retry.log
        n == Len(log)
    IN /\ n >= 1
       /\ \/ /\ retry.promise.state = "resolved"
             /\ log[n].ok /\ \A i \in 1..(n - 1) : ~log[i].ok
             /\ retry.promise.value = log[n].value
          \/ /\ retry.promise.state = "rejected"
             /\ \A i \in 1..n : ~log[i].ok
             /\ retry.promise.error = log[n].error

\* ------------------------------------------------------------------ debounce

\* The latest time on the clock and the most calls of a debounced function
\* that are followed.
DebMaxTime == MaxSpan + MaxStep
DebMaxCalls == MaxSpan

\* The arguments and the this of a call of the debounced function.
DebCallKinds == { [args |-> "x", context |-> "o1"], [args |-> "y", context |-> "o2"] }

DebInputs ==
  { [isFunction |-> f, wait |-> w, immediate |-> i] :
      f \in BOOLEAN, w \in {Num(k) : k \in -1..MaxStep} \cup {Frac(1)}, i \in BOOLEAN }

\* timeout is the closure's variable: 0 while it is undefined or null, else
\* the id of the timer set last. timers holds the timers that are set and
\* neither fired nor cleared, each with the args and context its callback
\* closes over. calls and invoked are the histories of the calls of the
\* debounced function (each with its time and whether a timer was pending
\* when it was made) and of the invocations of func.
InitDeb ==
  /\ deb \in { [pc |-> "create", in |-> i, now |-> 0, timeout |-> 0, timers |-> {}, nextId |-> 1,
                calls |-> <<>>, invoked |-> <<>>] : i \in DebInputs }
  /\ recur = Idle /\ isect = Idle /\ split = Idle /\ nbd = Idle /\ slots = Idle /\ agg = Idle /\ batch = Idle /\ prim = Idle /\ retry = Idle /\ heap = Idle /\ thr = Idle /\ memo = Idle /\ trunc = Idle

\* Lines 42-45: validation; the closure starts with timeout undefined.
DebCreate ==
  /\ deb.pc = "create"
  /\ IF ~deb.in.isFunction \/ ~NumberIsInteger(deb.in.wait) \/ deb.in.wait.v < 0
     THEN deb' = [deb EXCEPT !.pc = "threw"]
     ELSE deb' = [deb EXCEPT !.pc = "live"]
  /\ UNCHANGED <<recur, isect, split, nbd, slots, agg, batch, prim, retry, thr, memo, trunc>>

\* DebClearTimeout that clears nothing.
DebClearTimeoutNothing(timers, id) == timers

\* clearTimeout(id): the timer with that id, if still set, is dropped.
DebClearTimeout(timers, id) == { t \in timers : t.id # id }

\* One invocation of func, as recorded in the history: when, with what, how
\* many calls of the debounced function had been made by then, and whether
\* a call or a timer made it.
DebInvocation(d, args, context, by) ==
  [time |-> d.now, args |-> args, context |-> context, callsSeen |-> Len(d.calls), by |-> by]

\* DebCallNow that does not look at the timer.
DebCallNowAlways(immediate, timeout) == immediate

\* Line 52: callNow = immediate && !timeout.
DebCallNow(immediate, timeout) == immediate /\ timeout = 0

\* Lines 46-56: one call of the debounced function.
DebInvoke ==
  /\ deb.pc = "live" /\ Len(deb.calls) < DebMaxCalls
  /\ \E k \in DebCallKinds :
       LET callNow == DebCallNow(deb.in.immediate, deb.timeout)
           called == [deb EXCEPT !.calls = Append(deb.calls, [time |-> deb.now, args |-> k.args,
                                                             context |-> k.context,
                                                             pending |-> deb.timers # {}])]
           timer == [id |-> deb.nextId, due |-> deb.now + deb.in.wait.v,
                     args |-> k.args, context |-> k.context]
       IN deb' = [called EXCEPT
                    !.timers = DebClearTimeout(deb.timers, deb.timeout) \cup {timer},
                    !.timeout = timer.id,
                    !.nextId = deb.nextId + 1,
                    !.invoked = IF callNow
                                THEN Append(deb.invoked, DebInvocation(called, k.args, k.context, "call"))
                                ELSE deb.invoked]
  /\ UNCHANGED <<recur, isect, split, nbd, slots, agg, batch, prim, retry, thr, memo, trunc>>

\* Lines 48-51: a timer that is due fires and runs its callback later.
DebLater ==
  /\ deb.pc = "live"
  /\ \E t \in deb.timers :
       /\ t.due <= deb.now
       /\ deb' = [deb EXCEPT
                    !.timers = deb.timers \ {t},
                    !.timeout = 0,
                    !.invoked = IF ~deb.in.immediate
                                THEN Append(deb.invoked, DebInvocation(deb, t.args, t.context, "timer"))
                                ELSE deb.invoked]
  /\ UNCHANGED <<recur, isect, split, nbd, slots, agg, batch, prim, retry, thr, memo, trunc>>

\* A millisecond passes. A timer fires at its due time or later, never
\* before.
DebTick ==
  /\ deb.pc = "live" /\ deb.now < DebMaxTime
  /\ deb' = [deb EXCEPT !.now = deb.now + 1]
  /\ UNCHANGED <<recur, isect, split, nbd, slots, agg, batch, prim, retry, thr, memo, trunc>>

NextDeb ==
  \/ DebCreate /\ UNCHANGED heap
  \/ DebInvoke /\ UNCHANGED heap
  \/ DebLater /\ UNCHANGED heap
  \/ DebTick /\ UNCHANGED heap

SpecDeb == InitDeb /\ [][NextDeb]_vars

\* ------------------------------------------------------- claims on debounce

ActiveOp ==
  CASE recur.pc # "idle" -> "generateRecurringEvents"
    [] isect.pc # "idle" -> "getDateRangeIntersection"
    [] split.pc # "idle" -> "splitDateRange"
    [] nbd.pc # "idle" -> "getNextBusinessDay"
    [] slots.pc # "idle" -> "generateTimeSlots"
    [] agg.pc # "idle" -> "aggregateDateRanges"
    [] batch.pc # "idle" -> "batchConvertTimezone"

RECURSIVE RangeEndpoints(_, _)
\* The start and the end of every range from index i on, in order.
RangeEndpoints(ranges, i) ==
  IF i > Len(ranges) THEN <<>>
  ELSE <<ranges[i].start, ranges[i].end>> \o RangeEndpoints(ranges, i + 1)

\* The instants passed as arguments, in the order of the parameters.
PureArgs ==
  CASE ActiveOp = "generateRecurringEvents" -> <<recur.in.startDate, recur.in.endDate>>
    [] ActiveOp = "getDateRangeIntersection" ->
         <<isect.in.start1, isect.in.end1, isect.in.start2, isect.in.end2>>
    [] ActiveOp = "splitDateRange" -> <<split.in.startDate, split.in.endDate>>
    [] ActiveOp = "getNextBusinessDay" -> <<nbd.date>> \o nbd.holidays
    [] ActiveOp = "generateTimeSlots" -> <<slots.in.startDate, slots.in.endDate>>
    [] ActiveOp = "aggregateDateRanges" -> RangeEndpoints(agg.in.ranges, 1)
    [] ActiveOp = "batchConvertTimezone" -> batch.in.dates

\* The operation's own object for each argument, as the call has left it
\* so far. generateRecurringEvents and generateTimeSlots move start and end
\* into the zone and advance start (current is start itself, lines 20 and
\* 153); batchConvertTimezone moves each valid date into the zone (line
\* 42); the other operations change second clones only (lines 84, 129) or
\* nothing.
PureLocals ==
  CASE ActiveOp = "generateRecurringEvents" ->
         IF recur.pc = "call" \/ RecurRejects(recur.in.startDate, recur.in.endDate,
                                              recur.in.intervalValue, recur.in.timezone)
         THEN PureArgs ELSE <<recur.current, recur.endWithTz>>
    [] ActiveOp = "generateTimeSlots" ->
         IF slots.pc = "call" \/ SlotsRejects(slots.in.startDate, slots.in.endDate,
                                              slots.in.slotDuration, slots.in.timezone)
         THEN PureArgs ELSE <<slots.current, slots.endWithTz>>
    [] ActiveOp = "batchConvertTimezone" ->
         IF batch.pc = "call" \/ ~batch.in.isArray \/ ~ZoneExists(batch.in.targetTimezone)
         THEN PureArgs
         ELSE [i \in 1..Len(batch.in.dates) |->
                 IF IsValid(batch.in.dates[i])
                 THEN SetTimezone(batch.in.dates[i], batch.in.targetTimezone)
                 ELSE batch.in.dates[i]]
    [] OTHER -> PureArgs

\* What the operation has returned.
PureResult ==
  CASE ActiveOp = "generateRecurringEvents" -> recur.result
    [] ActiveOp = "getDateRangeIntersection" -> isect.result
    [] ActiveOp = "splitDateRange" -> split.result
    [] ActiveOp = "getNextBusinessDay" -> nbd.result
    [] ActiveOp = "generateTimeSlots" -> slots.result
    [] ActiveOp = "aggregateDateRanges" -> agg.result
    [] ActiveOp = "batchConvertTimezone" -> batch.result

PureDone ==
  "done" \in {recur.pc, isect.pc, split.pc, nbd.pc, slots.pc, agg.pc, batch.pc}

\* HeapLocalRef that hands the operation the caller's object itself.
HeapLocalRefAlias(i, n) == i

\* Lines 14-15, 40, 55-58, 79-80, 107-108, 122, 125, 146-147: the object the
\* operation works on for its i-th instant argument is a new one, a clone
\* of the argument or a moment parsed from it.
HeapLocalRef(i, n) == n + i

\* The heap when the caller's instants are args and the operation's objects
\* hold locals: each local is written to the object it lives in.
HeapAfter(h, args, locals) ==
  LET n == Len(args)
      base == IF h.pc = "idle"
              THEN [pc |-> "live", objs |-> args \o args, orig |-> args, calls |-> 1, first |-> Null]
              ELSE h
  IN [base EXCEPT !.objs =
        [r \in 1..(2 * n) |->
           IF \E i \in 1..n : HeapLocalRef(i, n) = r
           THEN locals[CHOOSE i \in 1..n : HeapLocalRef(i, n) = r]
           ELSE base.objs[r]]]

\* A step of the operation, with its effect on the heap.
HeapFollows == heap' = HeapAfter(heap, PureArgs, PureLocals')

\* The caller's objects as they are now, as the arguments of the next call.
HeapArgs == SubSeq(heap.objs, 1, Len(heap.orig))

\* The caller calls the operation once more with the same objects.
PureAgain ==
  /\ heap.pc = "live" /\ heap.calls = 1 /\ PureDone
  /\ heap' = [heap EXCEPT !.calls = 2, !.first = PureResult]
  /\ LET a == HeapArgs IN
     CASE ActiveOp = "generateRecurringEvents" ->
            /\ recur' = [recur EXCEPT !.pc = "call", !.result = Null,
                                      !.in.startDate = a[1], !.in.endDate = a[2]]
            /\ UNCHANGED <<isect, split, nbd, slots, agg, batch, prim, retry, deb, thr, memo, trunc>>
       [] ActiveOp = "getDateRangeIntersection" ->
            /\ isect' = [isect EXCEPT !.pc = "call", !.result = Null,
                                      !.in.start1 = a[1], !.in.end1 = a[2],
                                      !.in.start2 = a[3], !.in.end2 = a[4]]
            /\ UNCHANGED <<recur, split, nbd, slots, agg, batch, prim, retry, deb, thr, memo, trunc>>
       [] ActiveOp = "splitDateRange" ->
            /\ split' = [split EXCEPT !.pc = "call", !.result = Null,
                                      !.in.startDate = a[1], !.in.endDate = a[2]]
            /\ UNCHANGED <<recur, isect, nbd, slots, agg, batch, prim, retry, deb, thr, memo, trunc>>
       [] ActiveOp = "getNextBusinessDay" ->
            /\ nbd' = [nbd EXCEPT !.pc = "call", !.result = Null,
                                  !.date = a[1], !.holidays = SubSeq(a, 2, Len(a))]
            /\ UNCHANGED <<recur, isect, split, slots, agg, batch, prim, retry, deb, thr, memo, trunc>>
       [] ActiveOp = "generateTimeSlots" ->
            /\ slots' = [slots EXCEPT !.pc = "call", !.result = Null,
                                      !.in.startDate = a[1], !.in.endDate = a[2]]
            /\ UNCHANGED <<recur, isect, split, nbd, agg, batch, prim, retry, deb, thr, memo, trunc>>
       [] ActiveOp = "aggregateDateRanges" ->
            /\ agg' = [agg EXCEPT !.pc = "call", !.result = Null,
                                  !.in.ranges = [i \in 1..Len(agg.in.ranges) |->
                                                   [start |-> a[2 * i - 1], end |-> a[2 * i]]]]
            /\ UNCHANGED <<recur, isect, split, nbd, slots, batch, prim, retry, deb, thr, memo, trunc>>
       [] ActiveOp = "batchConvertTimezone" ->
            /\ batch' = [batch EXCEPT !.pc = "call", !.result = Null, !.in.dates = a]
            /\ UNCHANGED <<recur, isect, split, nbd, slots, agg, prim, retry, deb, thr, memo, trunc>>

InitPure ==
  InitRecur \/ InitIsect \/ InitSplit \/ InitNbd \/ InitSlots \/ InitAgg \/ InitBatch

NextPure ==
  \/ RecurCall /\ HeapFollows
  \/ RecurLoop /\ HeapFollows
  \/ IsectCall /\ HeapFollows
  \/ SplitCall /\ HeapFollows
  \/ SplitLoop /\ HeapFollows
  \/ NbdCall /\ HeapFollows
  \/ NbdLoop /\ HeapFollows
  \/ SlotsCall /\ HeapFollows
  \/ SlotsDay /\ HeapFollows
  \/ SlotsSlot /\ HeapFollows
  \/ AggCall /\ HeapFollows
  \/ BatchCall /\ HeapFollows
  \/ PureAgain

SpecPure == InitPure /\ [][NextPure]_vars

\* ------------------------------------------- claims on the core operations

\* Two returned values are equal.
SameResult(a, b) == a.isNull = b.isNull /\ (~a.isNull => a.value = b.value)

\* C18: at every point of a first and of a repeated call of a core
\* operation each Moment object the caller passed has the instant and the
\* zone it had before the first call, and the repeated call returns a result
\* equal to that of the first.
C18_CallerInstantsKept ==
  heap.pc = "live" =>
    /\ HeapArgs = heap.orig
    /\ (heap.calls = 2 /\ PureDone) => SameResult(PureResult, heap.first)

\* A repeated generateRecurringEvents call with a zone has returned: each of
\* the two calls moved its start and end into the zone and advanced its
\* start past the end, and both returned the same two or more occurrences.
C18_Witness ==
  /\ heap.pc = "live" /\ heap.calls = 2
  /\ recur.pc = "done" /\ recur.in.timezone = "Asia/Kolkata"
  /\ ~recur.result.isNull /\ Len(recur.result.value) >= 2
  /\ SameResult(recur.result, heap.first)
  /\ recur.current # recur.in.startDate
  /\ heap.objs[HeapLocalRef(1, 2)] = recur.current
  /\ heap.objs[1] = recur.in.startDate

\* ------------------------------------------------------------------ throttle

\* The latest time on the clock and the most calls of a throttled function
\* that are followed; the clock (Date.now()) starts anywhere from 0 on.
ThrMaxTime == MaxSpan + MaxStep
ThrMaxCalls == MaxSpan
ThrClockStarts == 0..MaxStep

\* The arguments of a call of the throttled function; func returns what it
\* is given.
ThrArgs == {"x", "y"}

ThrInputs ==
  { [isFunction |-> f, limit |-> l] :
      f \in BOOLEAN, l \in {Num(k) : k \in -1..MaxStep} \cup {Frac(1)} }

\* lastCall is the closure's variable. calls is the history of the calls of
\* the throttled function, each with its time and what it returned; invoked
\* is the history of the invocations of func, each with its time and the
\* number of the call that made it.
InitThr ==
  /\ thr \in { [pc |-> "create", in |-> i, now |-> t, lastCall |-> 0,
                calls |-> <<>>, invoked |-> <<>>] : i \in ThrInputs, t \in ThrClockStarts }
  /\ recur = Idle /\ isect = Idle /\ split = Idle /\ nbd = Idle /\ slots = Idle /\ agg = Idle /\ batch = Idle /\ prim = Idle /\ retry = Idle /\ deb = Idle /\ heap = Idle /\ memo = Idle /\ trunc = Idle

\* Lines 66-69: validation; the closure starts with lastCall = 0.
ThrCreate ==
  /\ thr.pc = "create"
  /\ IF ~thr.in.isFunction \/ ~NumberIsInteger(thr.in.limit) \/ thr.in.limit.v < 0
     THEN thr' = [thr EXCEPT !.pc = "threw"]
     ELSE thr' = [thr EXCEPT !.pc = "live", !.lastCall = 0]
  /\ UNCHANGED <<recur, isect, split, nbd, slots, agg, batch, prim, retry, deb, memo, trunc>>

\* Line 72: the test of a call.
ThrPasses(now, lastCall, limit) == now - lastCall >= limit

\* Lines 70-76: one call of the throttled function. A call that does not
\* pass the test falls off the end of the function and returns undefined.
ThrInvoke ==
  /\ thr.pc = "live" /\ Len(thr.calls) < ThrMaxCalls
  /\ \E args \in ThrArgs :
       LET now == thr.now
           n == Len(thr.calls) + 1
       IN IF ThrPasses(now, thr.lastCall, thr.in.limit.v)
          THEN thr' = [thr EXCEPT
                         !.lastCall = now,
                         !.calls = Append(thr.calls, [time |-> now, args |-> args,
                                                      returned |-> Value(args)]),
                         !.invoked = Append(thr.invoked, [time |-> now, args |-> args,
                                                          call |-> n])]
          ELSE thr' = [thr EXCEPT
                         !.calls = Append(thr.calls, [time |-> now, args |-> args,
                                                      returned |-> Null])]
  /\ UNCHANGED <<recur, isect, split, nbd, slots, agg, batch, prim, retry, deb, memo, trunc>>

\* A millisecond passes on the clock.
ThrTick ==
  /\ thr.pc = "live" /\ thr.now < ThrMaxTime
  /\ thr' = [thr EXCEPT !.now = thr.now + 1]
  /\ UNCHANGED <<recur, isect, split, nbd, slots, agg, batch, prim, retry, deb, memo, trunc>>

NextThr ==
  \/ ThrCreate /\ UNCHANGED heap
  \/ ThrInvoke /\ UNCHANGED heap
  \/ ThrTick /\ UNCHANGED heap

SpecThr == InitThr /\ [][NextThr]_vars

\* ------------------------------------------------------- claims on throttle

\* Call number j of the throttled function invoked func.
ThrInvokedBy(j) == \E i \in 1..Len(thr.invoked) : thr.invoked[i].call = j

\* Any two invocations of func are limit milliseconds or more apart.
ThrSpaced ==
  \A i, j \in 1..Len(thr.invoked) :
    (i < j) => thr.invoked[j].time - thr.invoked[i].time >= thr.in.limit.v

\* A call less than limit milliseconds after the last invocation before it
\* invokes nothing and returns undefined.
ThrDropsEarly ==
  \A j \in 1..Len(thr.calls) :
    \A i \in 1..Len(thr.invoked) :
      (thr.invoked[i].call < j /\ thr.calls[j].time - thr.invoked[i].time < thr.in.limit.v)
        => (~ThrInvokedBy(j) /\ thr.calls[j].returned.isNull)

\* C21 as stated: invocations are limit ms or more apart, a call less than
\* limit ms after the last invocation is dropped, and the first call is
\* always invoked, whatever the clock reads when it is made.
C21_Original ==
  (thr.pc = "live") =>
    /\ ThrSpaced
    /\ ThrDropsEarly
    /\ (Len(thr.calls) >= 1 => ThrInvokedBy(1))

\* ------------------------------------------------------------------- memoize

\* The most calls of a memoized function that are followed.
MemoMaxCalls == MaxSpan

\* JavaScript values passed as arguments: the number 1, the string '1',
\* null, undefined and NaN; a number is held by its digits.
JsNumber(v) == [type |-> "number", v |-> v]
JsString(v) == [type |-> "string", v |-> v]
JsNull == [type |-> "null", v |-> ""]
JsUndefined == [type |-> "undefined", v |-> ""]
JsNaN == [type |-> "number", v |-> "NaN"]

\* A text is the sequence of its characters.
NullText == <<"n", "u", "l", "l">>

\* JSON.stringify of a value that is an element of an array: a finite number
\* by its digits, a string between double quotes, and null, undefined and
\* NaN all as null.
JsonStringifyElement(x) ==
  CASE x.type = "string" -> <<"\"", x.v, "\"">>
    [] x.type = "number" /\ x.v # "NaN" -> <<x.v>>
    [] OTHER -> NullText

\* JSON.stringify of the elements from i on, separated by commas.
RECURSIVE JsonStringifyFrom(_, _)

JsonStringifyFrom(args, i) ==
  IF i > Len(args) THEN <<>>
  ELSE (IF i > 1 THEN <<",">> ELSE <<>>) \o JsonStringifyElement(args[i])
         \o JsonStringifyFrom(args, i + 1)

\* Line 261: JSON.stringify(args) of the array of the arguments.
JsonStringify(args) == <<"[">> \o JsonStringifyFrom(args, 1) \o <<"]">>

\* The argument lists of the calls followed, and what an invocation of func
\* may return.
MemoArgLists ==
  { <<>>, <<JsNumber("1")>>, <<JsString("1")>>, <<JsNull>>, <<JsUndefined>>, <<JsNaN>>,
    <<JsNumber("1"), JsNull>>, <<JsNumber("1"), JsUndefined>> }
MemoResults == {"r1", "r2"}

\* cache is the Map of the closure: a set of entries [key, value], with by
\* the number of the call that set the entry. calls is the history of the
\* calls of the memoized function: the arguments, whether func was invoked,
\* the entry read on a hit, and the value returned or the throw.
InitMemo ==
  /\ memo \in { [pc |-> "create", isFunction |-> f, cache |-> {}, calls |-> <<>>] :
                  f \in BOOLEAN }
  /\ recur = Idle /\ isect = Idle /\ split = Idle /\ nbd = Idle /\ slots = Idle /\ agg = Idle /\ batch = Idle /\ prim = Idle /\ retry = Idle /\ deb = Idle /\ heap = Idle /\ thr = Idle /\ trunc = Idle

\* Lines 258-259: validation and the empty cache.
MemoCreate ==
  /\ memo.pc = "create"
  /\ IF ~memo.isFunction
     THEN memo' = [memo EXCEPT !.pc = "threw"]
     ELSE memo' = [memo EXCEPT !.pc = "live", !.cache = {}]
  /\ UNCHANGED <<recur, isect, split, nbd, slots, agg, batch, prim, retry, deb, thr, trunc>>

\* Line 262: cache.has(key).
MemoCacheHas(cache, key) == \E c \in cache : c.key = key

\* Line 262: cache.get(key).
MemoCacheGet(cache, key) == CHOOSE c \in cache : c.key = key

\* Lines 260-266: one call of the memoized function. An invocation of func
\* returns some value, which is cached, or throws, and then the throw leaves
\* the memoized function before cache.set.
MemoInvoke ==
  /\ memo.pc = "live" /\ Len(memo.calls) < MemoMaxCalls
  /\ \E args \in MemoArgLists :
       LET key == JsonStringify(args)
           n == Len(memo.calls) + 1
       IN IF MemoCacheHas(memo.cache, key)
          THEN LET c == MemoCacheGet(memo.cache, key)
               IN memo' = [memo EXCEPT
                             !.calls = Append(memo.calls,
                                              [args |-> args, invoked |-> FALSE, from |-> c.by,
                                               threw |-> FALSE, returned |-> c.value])]
          ELSE \/ \E result \in MemoResults :
                    memo' = [memo EXCEPT
                               !.cache = memo.cache \cup {[key |-> key, value |-> result, by |-> n]},
                               !.calls = Append(memo.calls,
                                                [args |-> args, invoked |-> TRUE, from |-> n,
                                                 threw |-> FALSE, returned |-> result])]
               \/ memo' = [memo EXCEPT
                             !.calls = Append(memo.calls,
                                              [args |-> args, invoked |-> TRUE, from |-> n,
                                               threw |-> TRUE, returned |-> "none"])]
  /\ UNCHANGED <<recur, isect, split, nbd, slots, agg, batch, prim, retry, deb, thr, trunc>>

NextMemo ==
  \/ MemoCreate /\ UNCHANGED heap
  \/ MemoInvoke /\ UNCHANGED heap

SpecMemo == InitMemo /\ [][NextMemo]_vars

\* -------------------------------------------------------- claims on memoize

\* Call number i invoked func and func returned normally.
MemoReturnedNormally(i) == memo.calls[i].invoked /\ ~memo.calls[i].threw

\* func is invoked at most once, with a normal return, per key, and every
\* later call with that key returns the first invocation's value without
\* invoking func.
MemoOncePerKey ==
  \A i, j \in 1..Len(memo.calls) :
    (i < j /\ MemoReturnedNormally(i)
       /\ JsonStringify(memo.calls[i].args) = JsonStringify(memo.calls[j].args))
      => /\ ~memo.calls[j].invoked
         /\ ~memo.calls[j].threw
         /\ memo.calls[j].returned = memo.calls[i].returned

\* A call answered from the cache is answered with the result of a call
\* that had the same argument list.
MemoNeverShared ==
  \A j \in 1..Len(memo.calls) :
    ~memo.calls[j].invoked => memo.calls[memo.calls[j].from].args = memo.calls[j].args

\* C22 as stated: once per argument list, later calls served from the
\* cache, and two argument lists that differ never share a cached result.
C22_Original ==
  (memo.pc = "live") => (MemoOncePerKey /\ MemoNeverShared)

\* ------------------------------------------------------------ truncateString

\* A string is the sequence of its characters.
DefaultEllipsis == <<".", ".", ".">>

\* The strings drawn: the prefixes of 'abcdef' up to MaxSpan + MaxStep
\* characters; the ellipses: the default, the empty string and one
\* character.
TruncAlphabet == <<"a", "b", "c", "d", "e", "f">>
TruncStrings == { SubSeq(TruncAlphabet, 1, n) : n \in 0..Min2(MaxSpan + MaxStep, Len(TruncAlphabet)) }
TruncEllipses == { DefaultEllipsis, <<>>, <<"~">> }

TruncInputs ==
  { [isString |-> s, str |-> t, maxLength |-> m, ellipsis |-> el] :
      s \in BOOLEAN, t \in TruncStrings,
      m \in {Num(k) : k \in -1..(MaxSpan + MaxStep)} \cup {Frac(1)},
      el \in TruncEllipses }

InitTrunc ==
  /\ trunc \in { [pc |-> "call", in |-> i, result |-> <<>>] : i \in TruncInputs }
  /\ recur = Idle /\ isect = Idle /\ split = Idle /\ nbd = Idle /\ slots = Idle /\ agg = Idle /\ batch = Idle /\ prim = Idle /\ retry = Idle /\ deb = Idle /\ heap = Idle /\ thr = Idle /\ memo = Idle

\* String.prototype.slice(0, end): where the slice ends. A negative end
\* counts from the end of the string.
StringSliceEnd(len, end) == IF end < 0 THEN (IF len + end < 0 THEN 0 ELSE len + end) ELSE Min2(end, len)

\* str.slice(0, end).
StringSlice0(str, end) == SubSeq(str, 1, StringSliceEnd(Len(str), end))

\* Lines 24-28.
TruncateString(isString, str, maxLength, ellipsis) ==
  IF ~isString \/ ~NumberIsInteger(maxLength) \/ maxLength.v < 0 THEN <<>>
  ELSE IF Len(str) <= maxLength.v THEN str
  ELSE StringSlice0(str, maxLength.v - Len(ellipsis)) \o ellipsis

TruncCall ==
  /\ trunc.pc = "call"
  /\ trunc' = [trunc EXCEPT
                 !.pc = "done",
                 !.result = TruncateString(trunc.in.isString, trunc.in.str, trunc.in.maxLength,
                                           trunc.in.ellipsis)]
  /\ UNCHANGED <<recur, isect, split, nbd, slots, agg, batch, prim, retry, deb, thr, memo>>

NextTrunc ==
  \/ TruncCall /\ UNCHANGED heap

SpecTrunc == InitTrunc /\ [][NextTrunc]_vars

\* ------------------------------------------------- claims on truncateString

\* text ends with suffix.
EndsWith(text, suffix) ==
  /\ Len(suffix) <= Len(text)
  /\ SubSeq(text, Len(text) - Len(suffix) + 1, Len(text)) = suffix

\* A finished call with a string and an integer maxLength >= 0.
TruncAcceptedDone ==
  /\ trunc.pc = "done" /\ trunc.in.isString
  /\ trunc.in.maxLength.int /\ trunc.in.maxLength.v >= 0

\* C23 as stated: str itself when it fits, else a string that ends with the
\* ellipsis and is no longer than maxLength, also for a maxLength smaller
\* than the length of the ellipsis.
C23_Original ==
  TruncAcceptedDone =>
    IF Len(trunc.in.str) <= trunc.in.maxLength.v
    THEN trunc.result = trunc.in.str
    ELSE /\ EndsWith(trunc.result, trunc.in.ellipsis)
         /\ Len(trunc.result) <= trunc.in.maxLength.v

\* ------------------------------------ getNextBusinessDay: the earliest day

\* The calendar day dn is a Saturday, a Sunday, or the year-month-day of a
\* valid holiday.
NbdNonBusiness(dn, holidays) ==
  \/ Weekday(dn) \in {0, 6}
  \/ \E i \in 1..Len(holidays) :
       IsValid(holidays[i]) /\ FormatYmd(holidays[i]) = FormatYmd(Utc(dn, 0, 0))

\* C24 as stated: for a valid date D the result is on the earliest calendar
\* day after D's that is neither a weekend day nor a holiday (every day in
\* between is one), at D's time of day; Friday 2025-06-06 with no holidays
\* gives Monday 2025-06-09.
C24_Original ==
  (nbd.pc = "done" /\ IsValid(nbd.date)) =>
    /\ ~nbd.result.isNull
    /\ LocalDay(nbd.result.value) > LocalDay(nbd.date)
    /\ ~NbdNonBusiness(LocalDay(nbd.result.value), nbd.holidays)
    /\ \A dn \in (LocalDay(nbd.date) + 1)..(LocalDay(nbd.result.value) - 1) :
         NbdNonBusiness(dn, nbd.holidays)
    /\ LocalMs(nbd.result.value) = LocalMs(nbd.date)
    /\ (nbd.date = Utc(Ymd(2025, 6, 6), 0, 0) /\ nbd.holidays = <<>>)
         => nbd.result.value = Utc(Ymd(2025, 6, 9), 0, 0)

\* ------------------------------------- generateTimeSlots: the two day gates

\* The value of current when the day loop reaches local day dn: the start
\* itself on the first day, the start of the day on a later one.
SlotsCurrentOn(dn) ==
  LET first == [slots.in.startDate EXCEPT !.off = SlotsZoneOffset]
  IN IF dn = LocalDay(first) THEN first ELSE FromLocal(dn, 0, SlotsZoneOffset)

\* C25: no returned slot starts on an excluded weekday; no returned slot
\* belongs to a day whose dayStart is after the overall end; and, for
\* start <= end, every day from the start's to the end's that is not
\* excluded, whose dayStart is not after the end and whose window and range
\* have room for one slot, has a slot, whatever other days are excluded.
C25_IndependentGates ==
  SlotsValidDone =>
    LET sl == slots.result.value
        days == slots.in.constraints.days
        hours == slots.in.constraints.hours
        start == [slots.in.startDate EXCEPT !.off = SlotsZoneOffset]
        end == [slots.in.endDate EXCEPT !.off = SlotsZoneOffset]
    IN /\ \A i \in 1..Len(sl) :
            /\ ~Includes(days, Day(sl[i].start))
            /\ IsSameOrBeforeDate(sl[i].dayStart, slots.in.endDate)
            /\ LocalDay(sl[i].dayStart) = LocalDay(sl[i].start)
       /\ IsSameOrBeforeDate(slots.in.startDate, slots.in.endDate) =>
            \A dn \in LocalDay(start)..LocalDay(end) :
              LET current == SlotsCurrentOn(dn)
                  dayStart == SetHourMinute(current, hours.start.hour, hours.start.minute)
                  dayEnd == SetHourMinute(current, hours.end.hour, hours.end.minute)
                  slotEnd == AddTime(dayStart, slots.in.slotDuration.v, "minutes")
              IN ( /\ ~Includes(days, Weekday(dn))
                   /\ IsSameOrBeforeDate(dayStart, end)
                   /\ IsSameOrBeforeDate(slotEnd, dayEnd) /\ IsSameOrBeforeDate(slotEnd, end) )
                 => SlotsOnDay(dn) # {}

\* Tuesday 2025-06-10 00:00 to Thursday 2025-06-12 00:00, office hours,
\* Tuesdays excluded: Tuesday is shut by the weekday gate, Thursday by the
\* range gate, and Wednesday has its 16 slots of 30 minutes.
C25_Witness ==
  /\ SlotsValidDone
  /\ slots.in.startDate = Utc(Ymd(2025, 6, 10), 0, 0)
  /\ slots.in.endDate = Utc(Ymd(2025, 6, 12), 0, 0)
  /\ slots.in.constraints = [days |-> <<2>>, hours |-> OfficeHours]
  /\ slots.in.slotDuration = Num(30) /\ slots.in.timezone = ""
  /\ Len(slots.result.value) = 16
  /\ \A i \in 1..16 : LocalDay(slots.result.value[i].start) = Ymd(2025, 6, 11)

\* ------------------------------------- debounce with immediate = true

\* Call number n of the debounced function invoked func itself, at its own
\* time and with its own arguments and this.
DebInvokedByCall(n) ==
  \E i \in 1..Len(deb.invoked) :
    LET e == deb.invoked[i] IN
    /\ e.by = "call" /\ e.callsSeen = n
    /\ e.time = deb.calls[n].time /\ e.args = deb.calls[n].args
    /\ e.context = deb.calls[n].context

\* With immediate = true: a call invokes func exactly when no timer is
\* pending, and then once; no timer invokes func; and after every call one
\* timer is pending, due wait milliseconds after the most recent call.
DebLeadingEdge ==
  /\ \A n \in 1..Len(deb.calls) : DebInvokedByCall(n) <=> ~deb.calls[n].pending
  /\ \A i, j \in 1..Len(deb.invoked) :
       /\ deb.invoked[i].by = "call"
       /\ (i # j) => deb.invoked[i].callsSeen # deb.invoked[j].callsSeen
  /\ Cardinality(deb.timers) <= 1
  /\ \A t \in deb.timers :
       t.id = deb.timeout /\ t.due = deb.calls[Len(deb.calls)].time + deb.in.wait.v
  /\ (deb.timers = {}) <=> (deb.timeout = 0)

\* C26 as stated: no timer is pending at a call exactly when the call is
\* the first or comes wait milliseconds or more after the previous call.
C26_Original ==
  (deb.pc = "live" /\ deb.in.immediate) =>
    /\ DebLeadingEdge
    /\ \A n \in 1..Len(deb.calls) :
         DebInvokedByCall(n) <=>
           (n = 1 \/ deb.calls[n].time - deb.calls[n - 1].time >= deb.in.wait.v)

\* C26 as amended: no timer is pending at the first call and at a call made
\* after the timer of the previous call has fired, which is wait
\* milliseconds or more after that call; a call made while that timer has
\* not fired yet invokes nothing, however late it comes.
C26_DebounceLeading ==
  (deb.pc = "live" /\ deb.in.immediate) =>
    /\ DebLeadingEdge
    /\ \A n \in 1..Len(deb.calls) :
         DebInvokedByCall(n) =>
           (n = 1 \/ deb.calls[n].time - deb.calls[n - 1].time >= deb.in.wait.v)
    /\ Len(deb.calls) >= 1 => DebInvokedByCall(1)

\* Three calls with wait = 2: the first invokes func; the second, one
\* millisecond later, finds the timer pending and invokes nothing; the
\* third, after the timer has fired, invokes func again.
C26_Witness ==
  /\ deb.pc = "live" /\ deb.in.immediate /\ deb.in.wait.v = 2
  /\ Len(deb.calls) = 3
  /\ deb.calls[2].time = deb.calls[1].time + 1
  /\ deb.calls[2].pending /\ ~deb.calls[3].pending
  /\ Len(deb.invoked) = 2
  /\ deb.invoked[1].callsSeen = 1 /\ deb.invoked[2].callsSeen = 3

\* --------------------------------------- retryWithBackoff: the backoff

\* The arguments passed validation and no invocation of asyncFunc has
\* succeeded.
RetryKeepsFailing ==
  /\ retry.pc # "call"
  /\ retry.in.isFunction /\ retry.in.maxRetries.int /\ retry.in.maxRetries.v >= 0
  /\ \A i \in 1..Len(retry.log) : ~retry.log[i].ok

====
